---- MODULE Spec2Model ----
(***************************************************************************)
(* A model of the SAPI text-to-speech engine host of the repository        *)
(* windows-text-to-speech: the COM server entry points (com_server.rs),    *)
(* the class factory and the engine wrapper (windows_tts_engine/lib.rs),   *)
(* the unwind boundary (utils.rs) and the streaming loop of the two        *)
(* engines (windows_tts_engine_dll, windows_tts_engine_piper_dll).         *)
(***************************************************************************)
EXTENDS Integers, Sequences, FiniteSets, TLC

(* ------------------------------ bounds --------------------------------- *)

\* Class objects (factories) that can be alive at once.
MaxFactories == 1
\* Engine instances that can be alive at once.
MaxEngines == 1
\* Longest chain of panic payloads whose drop panics again.
MaxPayloadDepth == 2
\* Language ranges the detector returns for one Speak call.
MaxRanges == 2
\* Writes of one Speak call for which the sink takes less than it was offered.
MaxShortWrites == 1
\* Detected languages of one range in the voice selection.
MaxLanguages == 2
\* Voices the synthesizer enumerates in the voice selection.
MaxVoices == 2
\* Services MappingGetServices reports at most.
MaxServices == 2
\* Characters of a text handed to the language detectors at most.
MaxTextChars == 3
\* Threads that call into one object or one entry point side by side.
MaxThreads == 2

(* -------------------------- program constants -------------------------- *)

\* The largest number of bytes one ISpTTSEngineSite::Write call is offered.
MaxWriteBytes == 4096
\* The number of leading buffer ELEMENTS the SAPI engine skips: the buffer is
\* a Vec<u16>, so `&buffer[44..]` skips 44 two-byte elements.
WavHeaderElems == 44

(* ------------------------------ values --------------------------------- *)

Null == "null"
Garbage == "garbage"
Unset == "unset"
Tokens == {"t1", "t2"}

\* Interface and class ids a host can pass (NullPtr: a null GUID pointer).
NullPtr == "nullptr"
CLSID_TTS_ENGINE == "CLSID_TTS_ENGINE"
IID_IUnknown == "IID_IUnknown"
IID_ISpTTSEngine == "IID_ISpTTSEngine"
IID_ISpObjectWithToken == "IID_ISpObjectWithToken"
IID_IClassFactory == "IID_IClassFactory"
OtherGuid == "OtherGuid"
Guids == {CLSID_TTS_ENGINE, IID_IUnknown, IID_ISpTTSEngine,
          IID_ISpObjectWithToken, IID_IClassFactory, OtherGuid}

\* Error codes a collaborator (host sink, WinRT synthesizer, engine hook) returns.
CollaboratorErrors == {"E_ABORT", "E_OUTOFMEMORY"}

(* --------------------------- unwind boundary --------------------------- *)

\* What running a closure gives: it returns a value (hr is the HRESULT of a
\* windows_core::Result, val its payload) or it panics with a payload whose
\* drop panics again `payload` times in a row.
Ret(hr, val) == [kind |-> "ret", hr |-> hr, val |-> val, payload |-> 0]
Panic(d) == [kind |-> "panic", hr |-> "none", val |-> Null, payload |-> d]
NoClosure == [kind |-> "none", hr |-> "none", val |-> Null, payload |-> 0]
Panics == {Panic(d) : d \in 0..MaxPayloadDepth}

\* A drop attempt that is not retried: a second panicking drop escapes.
safe_any_drop_once(d) ==
    [drops |-> IF d = 0 THEN 1 ELSE 2, escaped |-> d >= 2]

\* utils.rs safe_any_drop: drop the payload under catch_unwind; when the drop
\* panics, go on with the new payload. `drops` counts the attempts.
RECURSIVE safe_any_drop(_)
safe_any_drop(d) ==
    IF d = 0
    THEN [drops |-> 1, escaped |-> FALSE]
    ELSE LET r == safe_any_drop(d - 1)
         IN  [drops |-> r.drops + 1, escaped |-> r.escaped]

\* A call of the closure with no catch_unwind around it.
catch_nothing(o) ==
    IF o.kind = "ret"
    THEN [some |-> TRUE, hr |-> o.hr, val |-> o.val, drops |-> 0, escaped |-> FALSE]
    ELSE [some |-> FALSE, hr |-> "none", val |-> Null, drops |-> 0, escaped |-> TRUE]

\* utils.rs safe_catch_unwind: Some(result), or None after the payload is gone.
safe_catch_unwind(o) ==
    IF o.kind = "ret"
    THEN [some |-> TRUE, hr |-> o.hr, val |-> o.val, drops |-> 0, escaped |-> FALSE]
    ELSE LET r == safe_any_drop(o.payload)
         IN  [some |-> FALSE, hr |-> "none", val |-> Null,
              drops |-> r.drops, escaped |-> r.escaped]

\* A boundary that reports a caught panic as success.
catch_unwind_and_succeed(o) ==
    LET r == safe_catch_unwind(o)
    IN  IF r.some THEN r ELSE [r EXCEPT !.hr = "S_OK"]

\* utils.rs catch_unwind_and_fail: None becomes Err(E_FAIL), Some(r) is r.
catch_unwind_and_fail(o) ==
    LET r == safe_catch_unwind(o)
    IN  IF r.some THEN r ELSE [r EXCEPT !.hr = "E_FAIL"]

\* Option::unwrap_or on the result of safe_catch_unwind, as the Dll* entry
\* points use it.
unwrap_or(r, default) == IF r.some THEN r ELSE [r EXCEPT !.hr = default]

(* ------------------------------- state --------------------------------- *)

VARIABLES
    kind,         \* which engine DLL this module is: "sapi" or "piper"
    initialized,  \* com_server.rs SAFE_ONCE_INIT has run
    module_arc,   \* com_server.rs MODULE: the OnceLock<Arc<()>> and its strong count
    factories,    \* the WindowsTtsEngineFactory objects, by slot
    engines,      \* the WindowsTtsEngine objects, by slot
    speak,        \* the Speak call in progress (one at a time) and its history
    last,         \* the last call that returned to the host
    crashed,      \* a panic unwound out of an entry point into the host
    calc,         \* a call of one of the pure helper functions: input and result
    unload,       \* a DllCanUnloadNow call running on a thread of its own
    threads,      \* calls that run on threads of their own, side by side
    piper         \* one Piper engine instance: its model cache, the lock around it, its calls

vars == <<kind, initialized, module_arc, factories, engines, speak, last, crashed, calc,
          unload, threads, piper>>

FactorySlots == 1..MaxFactories
EngineSlots == 1..MaxEngines

NoFactory == [alive |-> FALSE, module_ref |-> FALSE]
\* `cache` is the state of the Mutex around the Piper engine's model cache.
NoEngine == [alive |-> FALSE, module_ref |-> FALSE, token |-> Unset, cache |-> "ok"]

\* The lowest slot that holds no live object, 0 when all are taken.
FreeSlot(objs) ==
    IF \E i \in DOMAIN objs : ~objs[i].alive
    THEN CHOOSE i \in DOMAIN objs :
            ~objs[i].alive /\ \A j \in DOMAIN objs : ~objs[j].alive => i <= j
    ELSE 0

LiveFactories == {f \in FactorySlots : factories[f].alive}
LiveEngines == {e \in EngineSlots : engines[e].alive}

\* A call as the host sees it once it has returned. `out` is the state of the
\* output slot (ppv, or the returned token), `closure` what the code inside
\* the unwind boundary did, `engineCalled` whether user engine logic ran.
Call(op, obj) ==
    [op |-> op, obj |-> obj, hr |-> "none", out |-> "noslot", outId |-> 0,
     closure |-> NoClosure, drops |-> 0, engineCalled |-> FALSE,
     ppvNull |-> FALSE, rclsid |-> "none", riid |-> "none", punk |-> FALSE,
     tok |-> "none", fmt |-> "none", outFmt |-> "none", before |-> Unset,
     writes |-> 0, ranges |-> 0, abortSeen |-> FALSE, writesAtAbort |-> 0,
     missedPoll |-> FALSE, siteNull |-> FALSE, sinkErr |-> "none",
     collabFailed |-> FALSE, offered |-> 0, polled |-> {}, reread |-> {},
     models |-> "none", detected |-> FALSE]

\* The Speak call in progress: where it is (pc), the engine it runs on, the
\* ranges not yet started, the bytes of the current range not yet consumed,
\* and the call's history: the Write calls issued, the short ones among them,
\* whether a Write has not been followed by GetActions yet (unpolled),
\* whether a Write was issued in that situation (missedPoll), whether a poll
\* returned the Abort bit and how many Writes had been issued by then, the
\* audio bytes of the current range (size) and how many of them the sink has
\* consumed (sunk), both kept until the next range has its audio, the error
\* of a failed Write (sinkErr), whether a collaborator failed in this call
\* (collabFailed), right after a Write the bytes it offered (offered), and,
\* between a poll and the Write after it, the flags the poll returned (polled)
\* and the host settings the loop read again and handed to the synthesizer
\* (reread); what list_models found (models) and whether the language
\* detection was started (detected).
IdleSpeak ==
    [pc |-> "idle", eng |-> 0, ranges |-> 0, remaining |-> 0, writes |-> 0,
     short |-> 0, unpolled |-> FALSE, missedPoll |-> FALSE,
     abortSeen |-> FALSE, writesAtAbort |-> 0,
     size |-> 0, sunk |-> 0, sinkErr |-> "none", collabFailed |-> FALSE,
     offered |-> 0, polled |-> {}, reread |-> {}, models |-> "none", detected |-> FALSE]

\* No helper function is being looked at.
NoCalc == [fn |-> "none"]

\* No DllCanUnloadNow call is running beside the host's other calls. A running
\* one has read the strong count (`can` is what the comparison gave) and then
\* returned `hr`.
NoUnload == [pc |-> "idle", can |-> FALSE, hr |-> "none"]

\* The threads that make calls side by side.
Threads == 1..MaxThreads

\* A thread that is in no call. `inits` counts the runs of the server's
\* initialize hook on this thread and is kept from call to call; initPanic
\* tells that the hook panicked in this call, initDone that SAFE_ONCE_INIT
\* was complete when the body of the entry point started.
IdleThread ==
    [pc |-> "idle", op |-> "none", eng |-> 0, tok |-> "none", stored |-> FALSE,
     before |-> "none", hook |-> NoClosure, hr |-> "none", inits |-> 0, initDone |-> FALSE,
     initPanic |-> FALSE]

\* The model files a Piper engine finds in its piper_models folder.
ConfigPaths == {"a.onnx.json", "b.onnx.json"}

\* A thread that is in no Speak call of the Piper engine instance.
IdlePiperCall ==
    [pc |-> "idle", ranges |-> 0, path |-> "none", hr |-> "none"]

\* piper lib.rs create_engine: an empty cache behind an unlocked Mutex. The
\* history: how often each model was read from disk (loads), whether a range
\* selected a path that was read before and did not get the cached model
\* (missedCache), whether the cache was looked at or changed without the lock
\* (unlockedAccess), whether a model was synthesized from or a Write was issued
\* with the lock held (lockedWork).
NewPiper ==
    [lock |-> "free", owner |-> 0, cached |-> {}, loads |-> [p \in ConfigPaths |-> 0],
     calls |-> [t \in Threads |-> IdlePiperCall],
     missedCache |-> FALSE, unlockedAccess |-> FALSE, lockedWork |-> FALSE]

Init ==
    /\ kind \in {"sapi", "piper"}
    /\ initialized = FALSE
    /\ module_arc = [set |-> FALSE, strong |-> 0]
    /\ factories = [f \in FactorySlots |-> NoFactory]
    /\ engines = [e \in EngineSlots |-> NoEngine]
    /\ speak = IdleSpeak
    /\ last = Call("none", 0)
    /\ crashed = FALSE
    /\ calc = NoCalc
    /\ unload = NoUnload
    /\ threads = [t \in Threads |-> IdleThread]
    /\ piper = NewPiper

\* The host drives one call at a time in this model: it makes a call, takes
\* the result (`last` holds it until then) and only then makes the next one.
\* A crashed process runs nothing more.
HostIdle == ~crashed /\ speak.pc = "idle" /\ last.op = "none"

\* The host has looked at the result of the call that returned.
HostTakesResult ==
    /\ ~crashed
    /\ speak.pc = "idle"
    /\ last.op # "none"
    /\ last' = Call("none", 0)
    /\ UNCHANGED <<threads, piper, unload, calc, kind, initialized, module_arc, factories, engines, speak, crashed>>

(* ------------------------- keep-alive counter -------------------------- *)

\* com_server.rs module_ref(): the Arc is created on first use, strong = 1.
module_ref(m) == IF m.set THEN m ELSE [set |-> TRUE, strong |-> 1]

\* Arc::clone and the drop of one clone.
arc_clone(m) == [m EXCEPT !.strong = @ + 1]
arc_drop(m) == [m EXCEPT !.strong = @ - 1]

\* An unload test that ignores the class objects' clones.
module_can_unload_upto2(m) == m.strong <= 2

\* com_server.rs DllCanUnloadNow: Arc::strong_count(module_ref()) == 1.
module_can_unload(m) == m.strong = 1

(* ------------------------ server entry points -------------------------- *)

\* What the host is told about a call that went through the boundary with
\* result r: its status, or "unwound" when a panic left the boundary.
Returned(c, o, r) ==
    [c EXCEPT !.closure = o, !.drops = r.drops,
              !.hr = IF r.escaped THEN "unwound" ELSE r.hr]

\* com_server.rs DllGetClassObject, the argument checks in their order.
GetClassObjectCheck(ppvNull, rclsid, riid) ==
    IF ppvNull THEN "E_POINTER"
    ELSE IF rclsid = NullPtr \/ riid = NullPtr THEN "E_INVALIDARG"
    ELSE IF rclsid # CLSID_TTS_ENGINE \/ riid # IID_IClassFactory
         THEN "CLASS_E_CLASSNOTAVAILABLE"
    ELSE "S_OK"

\* com_server.rs DllGetClassObject. pt is where the body panics: "start" (the
\* log call before the checks), "end" (the log call after the factory was
\* written to *ppv) or "none".
DllGetClassObject(rclsid, riid, ppvNull, pt, d) ==
    LET check == GetClassObjectCheck(ppvNull, rclsid, riid)
        f == FreeSlot(factories)
        made == pt # "start" /\ check = "S_OK"
        o == IF pt = "start" \/ (pt = "end" /\ made) THEN Panic(d)
             ELSE Ret(check, Null)
        r == unwrap_or(safe_catch_unwind(o), "E_UNEXPECTED")
        c == [Call("DllGetClassObject", IF made THEN f ELSE 0) EXCEPT
                !.ppvNull = ppvNull, !.rclsid = rclsid, !.riid = riid,
                !.out = IF ppvNull THEN "noslot"
                        ELSE IF pt = "start" THEN Garbage
                        ELSE IF made THEN "factory" ELSE Null,
                !.outId = IF made THEN f ELSE 0]
    IN  /\ HostIdle
        /\ pt = "end" => check = "S_OK"
        /\ made => f # 0
        /\ initialized' = TRUE
        \* module_ref().clone() twice, one clone dropped with com_module
        /\ module_arc' = IF made
                         THEN arc_drop(arc_clone(arc_clone(module_ref(module_arc))))
                         ELSE module_arc
        /\ factories' = IF made
                        THEN [factories EXCEPT ![f] = [alive |-> TRUE, module_ref |-> TRUE]]
                        ELSE factories
        /\ last' = Returned(c, o, r)
        /\ crashed' = r.escaped
        /\ UNCHANGED <<threads, piper, unload, calc, kind, engines, speak>>

\* com_server.rs DllCanUnloadNow. The strong count is read before the log
\* call that can panic.
DllCanUnloadNow(panics, d) ==
    LET m == module_ref(module_arc)
        o == IF panics THEN Panic(d)
             ELSE Ret(IF module_can_unload(m) THEN "S_OK" ELSE "S_FALSE", Null)
        r == unwrap_or(safe_catch_unwind(o), "S_FALSE")
    IN  /\ HostIdle
        /\ initialized' = TRUE
        /\ module_arc' = m
        /\ last' = Returned(Call("DllCanUnloadNow", 0), o, r)
        /\ crashed' = r.escaped
        /\ UNCHANGED <<threads, piper, unload, calc, kind, factories, engines, speak>>

\* com_server.rs DllCanUnloadNow on a thread of its own, up to the comparison
\* of the strong count (line 136): other threads run between this and the
\* return.
DllCanUnloadNow_read ==
    LET m == module_ref(module_arc)
    IN  /\ ~crashed
        /\ unload.pc = "idle"
        /\ initialized' = TRUE
        /\ module_arc' = m
        /\ unload' = [NoUnload EXCEPT !.pc = "read", !.can = module_can_unload(m)]
        /\ UNCHANGED <<threads, piper, calc, kind, factories, engines, speak, last, crashed>>

\* The rest of that call: the log call, which can panic, and the return of
\* what the comparison gave.
DllCanUnloadNow_return(panics, d) ==
    LET o == IF panics THEN Panic(d)
             ELSE Ret(IF unload.can THEN "S_OK" ELSE "S_FALSE", Null)
        r == unwrap_or(safe_catch_unwind(o), "S_FALSE")
    IN  /\ ~crashed
        /\ unload.pc = "read"
        /\ unload' = [unload EXCEPT !.pc = "returned",
                                    !.hr = IF r.escaped THEN "unwound" ELSE r.hr]
        /\ crashed' = r.escaped
        /\ UNCHANGED <<threads, piper, calc, kind, initialized, module_arc, factories, engines, speak, last>>

\* The host has looked at what that call returned.
HostTakesUnloadResult ==
    /\ ~crashed
    /\ unload.pc = "returned"
    /\ unload' = NoUnload
    /\ UNCHANGED <<threads, piper, calc, kind, initialized, module_arc, factories, engines, speak, last,
                   crashed>>

\* com_server.rs DllRegisterServer / DllUnregisterServer: register_server()
\* and unregister_server() panic (expect) when the registry refuses.
DllRegisterServer(o) ==
    LET r == unwrap_or(safe_catch_unwind(o), "SELFREG_E_CLASS")
    IN  /\ HostIdle
        /\ initialized' = TRUE
        /\ last' = [Returned(Call("DllRegisterServer", 0), o, r) EXCEPT
                      !.engineCalled = TRUE]
        /\ crashed' = r.escaped
        /\ UNCHANGED <<threads, piper, unload, calc, kind, module_arc, factories, engines, speak>>

DllUnregisterServer(o) ==
    LET r == unwrap_or(safe_catch_unwind(o), "SELFREG_E_CLASS")
    IN  /\ HostIdle
        /\ initialized' = TRUE
        /\ last' = [Returned(Call("DllUnregisterServer", 0), o, r) EXCEPT
                      !.engineCalled = TRUE]
        /\ crashed' = r.escaped
        /\ UNCHANGED <<threads, piper, unload, calc, kind, module_arc, factories, engines, speak>>

(* ------------------------- one-time initialize ------------------------- *)

\* The entry points a thread calls in the model of the one-time initialize.
InitEntryPoints == {"DllCanUnloadNow", "DllRegisterServer", "DllUnregisterServer"}

\* com_server.rs SAFE_ONCE_INIT as the threads see it: complete, being run by
\* a thread, or new.
once_state ==
    IF initialized THEN "done"
    ELSE IF \E t \in Threads : threads[t].pc = "init" THEN "running"
    ELSE "new"

\* A flag tested and set without synchronisation: a thread that finds the
\* hook not finished runs it.
call_once_unsynchronised(state) == IF state = "done" THEN "skip" ELSE "run"

\* std::sync::Once::call_once: the first caller runs the closure, a caller
\* that comes while it runs waits until it is finished, a later one skips it.
call_once(state) ==
    IF state = "done" THEN "skip" ELSE IF state = "running" THEN "wait" ELSE "run"

\* An entry point called on thread t, up to safe_init_once: the thread runs
\* the initialize hook or goes on to the body; while another thread runs the
\* hook the call waits.
Entry_call_once(t, op) ==
    LET todo == call_once(once_state)
    IN  /\ ~crashed
        /\ threads[t].pc = "idle"
        /\ todo # "wait"
        /\ threads' = [threads EXCEPT ![t] =
                         IF todo = "run"
                         THEN [@ EXCEPT !.op = op, !.pc = "init", !.inits = IF @ < 2 THEN @ + 1 ELSE @]
                         ELSE [@ EXCEPT !.op = op, !.pc = "body", !.initDone = initialized]]
        /\ UNCHANGED <<piper, unload, calc, kind, initialized, module_arc, factories, engines,
                       speak, last, crashed>>

\* safe_catch_unwind::<_, ()>(|| T::initialize()) inside call_once: the hook
\* returns or panics, the panic is dropped, the Once is complete.
Entry_initialize(t, o) ==
    LET r == safe_catch_unwind(o)
    IN  /\ ~crashed
        /\ threads[t].pc = "init"
        /\ initialized' = ~r.escaped
        /\ threads' = [threads EXCEPT ![t] =
                         [@ EXCEPT !.pc = IF r.escaped THEN "returned" ELSE "body",
                                   !.hr = IF r.escaped THEN "unwound" ELSE "none",
                                   !.initPanic = o.kind = "panic",
                                   !.initDone = ~r.escaped]]
        /\ crashed' = r.escaped
        /\ UNCHANGED <<piper, unload, calc, kind, module_arc, factories, engines, speak, last>>

\* The body of the entry point after safe_init_once. o is what the body does
\* apart from DllCanUnloadNow's comparison: it returns or it panics.
Entry_body(t, o) ==
    LET op == threads[t].op
        m == module_ref(module_arc)
        isUnload == op = "DllCanUnloadNow"
        oo == IF isUnload /\ o.kind = "ret"
              THEN Ret(IF module_can_unload(m) THEN "S_OK" ELSE "S_FALSE", Null)
              ELSE o
        r == unwrap_or(safe_catch_unwind(oo), IF isUnload THEN "S_FALSE" ELSE "SELFREG_E_CLASS")
    IN  /\ ~crashed
        /\ threads[t].pc = "body"
        /\ module_arc' = IF isUnload THEN m ELSE module_arc
        /\ threads' = [threads EXCEPT ![t] =
                         [@ EXCEPT !.pc = "returned", !.hook = oo,
                                   !.hr = IF r.escaped THEN "unwound" ELSE r.hr]]
        /\ crashed' = r.escaped
        /\ UNCHANGED <<piper, unload, calc, kind, initialized, factories, engines, speak, last>>

(* ---------------------------- class factory ---------------------------- *)

\* The interface ids CreateInstance serves.
SupportedIids ==
    {CLSID_TTS_ENGINE, IID_IUnknown, IID_ISpTTSEngine, IID_ISpObjectWithToken}

\* Checks in another order: aggregation before the null interface id.
CreateInstanceCheckReordered(ppvNull, riid, punk) ==
    IF ppvNull THEN "E_POINTER"
    ELSE IF punk THEN "CLASS_E_NOAGGREGATION"
    ELSE IF riid = NullPtr THEN "E_INVALIDARG"
    ELSE IF riid \notin SupportedIids THEN "E_NOINTERFACE"
    ELSE "S_OK"

\* lib.rs CreateInstance, the argument checks in their order.
CreateInstanceCheck(ppvNull, riid, punk) ==
    IF ppvNull THEN "E_POINTER"
    ELSE IF riid = NullPtr THEN "E_INVALIDARG"
    ELSE IF punk THEN "CLASS_E_NOAGGREGATION"
    ELSE IF riid \notin SupportedIids THEN "E_NOINTERFACE"
    ELSE "S_OK"

\* lib.rs CreateInstance on factory f. ctor is what the closure that builds
\* the engine does: Ret("S_OK", "engine") or a panic of create_tts_engine.
CreateInstance(f, ppvNull, riid, punk, ctor) ==
    LET check == CreateInstanceCheck(ppvNull, riid, punk)
        e == FreeSlot(engines)
        r == catch_unwind_and_fail(ctor)
        made == check = "S_OK" /\ ctor.kind = "ret"
        c == [Call("CreateInstance", f) EXCEPT
                !.ppvNull = ppvNull, !.riid = riid, !.punk = punk]
    IN  /\ HostIdle
        /\ factories[f].alive
        /\ made => e # 0
        /\ IF check # "S_OK"
           THEN /\ last' = [c EXCEPT !.hr = check,
                               !.out = IF ppvNull THEN "noslot" ELSE Null]
                /\ crashed' = FALSE
           ELSE /\ last' = [Returned(c, ctor, r) EXCEPT
                               !.engineCalled = TRUE,
                               !.out = IF r.escaped \/ r.hr # "S_OK" THEN Null
                                       ELSE IF made THEN "engine" ELSE Garbage,
                               !.outId = IF made THEN e ELSE 0]
                /\ crashed' = r.escaped
        /\ engines' = IF made
                      THEN [engines EXCEPT ![e] =
                              [alive |-> TRUE, module_ref |-> factories[f].module_ref,
                               token |-> Unset, cache |-> "ok"]]
                      ELSE engines
        \* self.module_ref.clone()
        /\ module_arc' = IF made /\ factories[f].module_ref
                         THEN arc_clone(module_arc) ELSE module_arc
        /\ UNCHANGED <<threads, piper, unload, calc, kind, initialized, factories, speak>>

\* lib.rs LockServer.
LockServer(f) ==
    /\ HostIdle
    /\ factories[f].alive
    /\ last' = [Call("LockServer", f) EXCEPT !.hr = "E_NOTIMPL"]
    /\ UNCHANGED <<threads, piper, unload, calc, kind, initialized, module_arc, factories, engines, speak, crashed>>

\* The host releases its last reference to factory f: lib.rs Drop for
\* WindowsTtsEngineFactory, then the fields (the module_ref clone) drop.
ReleaseFactory(f) ==
    /\ HostIdle
    /\ factories[f].alive
    /\ factories' = [factories EXCEPT ![f] = NoFactory]
    /\ module_arc' = IF factories[f].module_ref THEN arc_drop(module_arc) ELSE module_arc
    /\ last' = Call("ReleaseFactory", f)
    /\ UNCHANGED <<threads, piper, unload, calc, kind, initialized, engines, speak, crashed>>

\* The host releases its last reference to engine e: lib.rs Drop for
\* WindowsTtsEngine, then the fields drop in order (engine, module_ref,
\* token). A panic of the user engine's destructor is caught nowhere; the
\* remaining fields still drop while it unwinds.
ReleaseEngine(e, o) ==
    /\ HostIdle
    /\ engines[e].alive
    /\ engines' = [engines EXCEPT ![e] = NoEngine]
    /\ module_arc' = IF engines[e].module_ref THEN arc_drop(module_arc) ELSE module_arc
    /\ last' = [Call("ReleaseEngine", e) EXCEPT
                  !.closure = o, !.engineCalled = TRUE,
                  !.hr = IF o.kind = "panic" THEN "unwound" ELSE "none"]
    /\ crashed' = (o.kind = "panic")
    /\ UNCHANGED <<threads, piper, unload, calc, kind, initialized, factories, speak>>

(* ---------------------------- bound token ------------------------------ *)

\* A set that stores the new value over the old one.
OnceLock_set_overwrite(cur, new) == [ok |-> cur = Unset, value |-> new]

\* A set that keeps the first value and reports success every time.
OnceLock_set_silent(cur, new) ==
    [ok |-> TRUE, value |-> IF cur = Unset THEN new ELSE cur]

\* OnceLock::set as lib.rs SetObjectToken uses it on `token`: the value is
\* stored only into an empty cell; Err when the cell was full.
OnceLock_set(cur, new) ==
    [ok |-> cur = Unset, value |-> IF cur = Unset THEN new ELSE cur]

\* A get that hands out the cell's content whether it was set or not.
OnceLock_get_unchecked(cur) == [some |-> TRUE, value |-> cur]

\* OnceLock::get as lib.rs GetObjectToken, Speak and GetOutputFormat use it.
OnceLock_get(cur) == [some |-> cur # Unset, value |-> cur]

\* What an engine hook (set_object_token) can do: succeed, fail, panic.
HookOutcomes == {Ret("S_OK", Null)} \cup {Ret(e, Null) : e \in CollaboratorErrors} \cup Panics

\* lib.rs SetObjectToken on engine e. A null token makes ptoken.unwrap()
\* panic before anything is stored, outside every catch_unwind.
SetObjectToken(e, tok, hook) ==
    LET s == OnceLock_set(engines[e].token, tok)
        r == catch_unwind_and_fail(hook)
        c == [Call("SetObjectToken", e) EXCEPT !.tok = tok, !.before = engines[e].token]
    IN  /\ HostIdle
        /\ engines[e].alive
        /\ IF tok = NullPtr
           THEN /\ engines' = engines
                /\ last' = [c EXCEPT !.hr = "unwound"]
                /\ crashed' = TRUE
           ELSE IF ~s.ok
           THEN /\ engines' = [engines EXCEPT ![e].token = s.value]
                /\ last' = [c EXCEPT !.hr = "E_FAIL"]
                /\ crashed' = FALSE
           ELSE /\ engines' = [engines EXCEPT ![e].token = s.value]
                /\ last' = [Returned(c, hook, r) EXCEPT !.engineCalled = TRUE]
                /\ crashed' = r.escaped
        /\ UNCHANGED <<threads, piper, unload, calc, kind, initialized, module_arc, factories, speak>>

\* lib.rs GetObjectToken on engine e.
GetObjectToken(e) ==
    LET g == OnceLock_get(engines[e].token)
        c == [Call("GetObjectToken", e) EXCEPT !.before = engines[e].token]
    IN  /\ HostIdle
        /\ engines[e].alive
        /\ last' = IF g.some
                   THEN [c EXCEPT !.hr = "S_OK", !.out = g.value]
                   ELSE [c EXCEPT !.hr = "E_FAIL", !.out = Null]
        /\ UNCHANGED <<threads, piper, unload, calc, kind, initialized, module_arc, factories, engines, speak, crashed>>

\* A SetObjectToken that takes the token back when the engine's hook fails.
token_cleared_on_failure(token, r) == IF r.hr = "S_OK" THEN token ELSE Unset

\* lib.rs SetObjectToken after self.token.set(..) succeeded: the result of
\* the engine's hook is returned and the token stays as it was stored.
token_after_hook(token, r) == token

\* lib.rs SetObjectToken on engine e, called on thread t while other threads
\* call it too, up to self.token.set(..), which OnceLock makes one atomic
\* step. A null token makes ptoken.unwrap() panic before that, outside every
\* catch_unwind. A call whose set fails logs and returns E_FAIL.
SetObjectToken_set(t, e, tok) ==
    LET s == OnceLock_set(engines[e].token, tok)
        th == [threads[t] EXCEPT !.op = "SetObjectToken", !.eng = e, !.tok = tok,
                                 !.before = engines[e].token]
    IN  /\ ~crashed
        /\ threads[t].pc = "idle"
        /\ engines[e].alive
        /\ IF tok = NullPtr
           THEN /\ engines' = engines
                /\ threads' = [threads EXCEPT ![t] = [th EXCEPT !.pc = "returned",
                                                               !.hr = "unwound"]]
                /\ crashed' = TRUE
           ELSE /\ engines' = [engines EXCEPT ![e].token = s.value]
                /\ threads' = [threads EXCEPT ![t] =
                                 IF s.ok THEN [th EXCEPT !.pc = "hook", !.stored = TRUE]
                                 ELSE [th EXCEPT !.pc = "returned", !.hr = "E_FAIL"]]
                /\ crashed' = FALSE
        /\ UNCHANGED <<piper, unload, calc, kind, initialized, module_arc, factories, speak,
                       last>>

\* The rest of the call whose set succeeded: the engine's set_object_token
\* hook runs inside catch_unwind_and_fail and its result is returned.
SetObjectToken_hook(t, hook) ==
    LET r == catch_unwind_and_fail(hook)
        e == threads[t].eng
    IN  /\ ~crashed
        /\ threads[t].pc = "hook"
        /\ engines' = [engines EXCEPT ![e].token = token_after_hook(@, r)]
        /\ threads' = [threads EXCEPT ![t] =
                         [@ EXCEPT !.pc = "returned", !.hook = hook,
                                   !.hr = IF r.escaped THEN "unwound" ELSE r.hr]]
        /\ crashed' = r.escaped
        /\ UNCHANGED <<piper, unload, calc, kind, initialized, module_arc, factories, speak,
                       last>>

\* The caller on thread t has looked at what its call returned.
ThreadTakesResult(t) ==
    /\ ~crashed
    /\ threads[t].pc = "returned"
    /\ threads' = [threads EXCEPT ![t] = [IdleThread EXCEPT !.inits = threads[t].inits]]
    /\ UNCHANGED <<piper, unload, calc, kind, initialized, module_arc, factories, engines,
                   speak, last, crashed>>

(* --------------------------- output format ----------------------------- *)

\* An engine that knows its PCM format only.
get_output_format_always_wave(target) == "Wave"

\* The engines' get_output_format: the debug text format when it is asked
\* for, the engine's one PCM format otherwise.
get_output_format(target) == IF target = "DebugText" THEN "DebugText" ELSE "Wave"

\* lib.rs GetOutputFormat on engine e. x is what happens on the way:
\* "assert_panic" (a debug assertion on the arguments fails), "engine_err"
\* (the engine returns Err), "alloc_fail" (CoTaskMemAlloc returns null),
\* "engine_panic", or "ok".
GetOutputFormat(e, target, x, d) ==
    LET g == OnceLock_get(engines[e].token)
        fmt == get_output_format(target)
        called == x # "assert_panic" /\ g.some
        o == IF x = "assert_panic" THEN Panic(d)
             ELSE IF ~g.some THEN Ret("E_FAIL", Null)
             ELSE IF x = "engine_panic" THEN Panic(d)
             ELSE IF x = "engine_err" THEN Ret("E_ABORT", Null)
             ELSE IF fmt = "Wave" /\ x = "alloc_fail" THEN Ret("E_OUTOFMEMORY", Null)
             ELSE Ret("S_OK", fmt)
        r == catch_unwind_and_fail(o)
        wrote == called /\ x # "engine_panic"
        c == [Call("GetOutputFormat", e) EXCEPT
                !.fmt = target, !.before = engines[e].token,
                !.engineCalled = called,
                !.outFmt = IF ~wrote THEN "untouched"
                           ELSE IF o.hr # "S_OK" THEN "zero"
                           ELSE IF fmt = "DebugText" THEN "SPDFID_Text"
                           ELSE "SPDFID_WaveFormatEx",
                !.out = IF ~wrote THEN "untouched"
                        ELSE IF o.hr = "S_OK" /\ fmt = "Wave" THEN "alloc"
                        ELSE Null]
    IN  /\ HostIdle
        /\ engines[e].alive
        /\ last' = Returned(c, o, r)
        /\ crashed' = r.escaped
        /\ UNCHANGED <<threads, piper, unload, calc, kind, initialized, module_arc, factories, engines, speak>>

(* ----------------------------- streaming ------------------------------- *)

\* Sizes in bytes of the stream the WinRT synthesizer returns (SAPI engine),
\* .wav header included.
SapiStreamSizes == {86, 88, 92, 93, 88 + MaxWriteBytes, 92 + MaxWriteBytes}
\* Sizes in bytes of the samples Piper returns for a range.
PiperAudioSizes == {0, 3, MaxWriteBytes, MaxWriteBytes + 4}

\* dll lib.rs, the stream as the write loop gets it: `size` bytes are read
\* into a Vec<u16> of size / 2 elements and `&buffer[44..]` drops its first 44
\* elements (a panic when there are fewer). `offset` is the byte offset in the
\* stream of the first byte the sink is offered, `len` the bytes offered.
wav_data(size) ==
    LET elems == size \div 2
    IN  [panic |-> elems < WavHeaderElems,
         offset |-> 2 * WavHeaderElems,
         len |-> 2 * (elems - WavHeaderElems)]

\* What the sink can report as consumed for a Write that offered n bytes.
Consumed(n) == {k \in {0, 1, n - 1, n} : 0 <= k /\ k <= n}

Min(a, b) == IF a <= b THEN a ELSE b

\* A Write that offers everything that is left at once.
OfferedAll(remaining) == remaining

\* The bytes one Write offers: (buffer.len() * 2).min(4096), buffer.len().min(4096).
Offered(remaining) == Min(remaining, MaxWriteBytes)

\* How far the cursor moves, in bytes, when the sink consumed k bytes: the
\* SAPI engine's buffer is a &[u16] advanced by k / 2 elements, Piper's a
\* &[u8] advanced by k.
Advance(k) == IF kind = "sapi" THEN 2 * (k \div 2) ELSE k

\* The Abort test reading the flags as one value instead of as bits.
AbortRequestedExact(actions) == actions = {"ABORT"}

\* SPVES_ABORT.0 & actions != 0
AbortRequested(actions) == "ABORT" \in actions

\* All values GetActions can return: any subset of the flags (SPVES_CONTINUE
\* is the empty one).
ActionFlags == SUBSET {"ABORT", "SKIP", "RATE", "VOLUME"}

\* The call returns to the host through catch_unwind_and_fail with closure
\* outcome o; the call's history goes with it.
SpeakReturns(o, sp) ==
    LET r == catch_unwind_and_fail(o)
        c == [Call("Speak", sp.eng) EXCEPT
                !.engineCalled = TRUE, !.writes = sp.writes, !.ranges = sp.ranges,
                !.abortSeen = sp.abortSeen, !.writesAtAbort = sp.writesAtAbort,
                !.missedPoll = sp.missedPoll, !.before = engines[sp.eng].token,
                !.sinkErr = sp.sinkErr, !.collabFailed = sp.collabFailed,
                !.offered = sp.offered, !.polled = sp.polled, !.reread = sp.reread,
                !.models = sp.models, !.detected = sp.detected]
    IN  /\ last' = Returned(c, o, r)
        /\ crashed' = r.escaped
        /\ speak' = IdleSpeak

\* lib.rs Speak on engine e, up to the call of the engine's speak: a debug
\* assertion on the format arguments can panic, then the token is read, then
\* the output site is unwrapped (a panic when it is null).
SpeakCall(e, assertFails, siteNull, d) ==
    LET g == OnceLock_get(engines[e].token)
        o == IF assertFails THEN Panic(d)
             ELSE IF ~g.some THEN Ret("E_FAIL", Null)
             ELSE Panic(d)
        r == catch_unwind_and_fail(o)
        c == [Call("Speak", e) EXCEPT !.before = engines[e].token,
                                      !.siteNull = siteNull]
    IN  /\ HostIdle
        /\ engines[e].alive
        /\ IF assertFails \/ ~g.some \/ siteNull
           THEN /\ last' = Returned(c, o, r)
                /\ crashed' = r.escaped
                /\ speak' = IdleSpeak
           ELSE /\ last' = [c EXCEPT !.hr = "pending", !.engineCalled = TRUE]
                /\ crashed' = FALSE
                /\ speak' = [IdleSpeak EXCEPT !.pc = "detect", !.eng = e]
        /\ UNCHANGED <<threads, piper, unload, calc, kind, initialized, module_arc, factories, engines>>

\* An error that is dropped: the function carries on to its Ok(()).
swallow(err) == Ret("S_OK", Null)

\* The `?` operator on a collaborator's Err(e): the function returns Err(e).
propagate(err) == Ret(err, Null)

\* sp with a collaborator failure noted in the call's history.
CollabFailure(sp) == [sp EXCEPT !.collabFailed = TRUE]

\* Option<Vec<PiperModelInfo>>
None == [some |-> FALSE, models |-> {}]
Some(models) == [some |-> TRUE, models |-> models]

\* A list_models that hands back an empty list when the folder holds no
\* valid model config.
list_models_allow_empty(dllPath, folder, valid) ==
    IF dllPath # "ok" \/ folder # "listed" THEN None ELSE Some(valid)

\* piper lib.rs list_models: None when the path of the DLL cannot be got,
\* when there is no piper_models folder beside it, when the folder cannot be
\* listed, and when none of its entries is a model config that can be read
\* and parsed (`valid` are the entries that are); Some(models) otherwise.
list_models(dllPath, folder, valid) ==
    IF dllPath # "ok" THEN None
    ELSE IF folder = "missing" THEN None
    ELSE IF folder = "unreadable" THEN None
    ELSE IF valid = {} THEN None
    ELSE Some(valid)

\* What a Speak call of the Piper engine has on disk, as the call's history
\* keeps it: the reason why there is no model to speak with, or "usable".
ModelFolder(dllPath, folder, valid) ==
    IF dllPath # "ok" THEN "dll_path"
    ELSE IF folder # "listed" THEN folder
    ELSE IF valid = {} THEN "no_models"
    ELSE "usable"

\* The engines' speak up to the loop over the ranges. The Piper engine lists
\* its models first and returns Ok at once when there is none;
\* DetectionService::new().expect and recognize_text().expect panic on
\* failure (x = "panic"); otherwise n ranges come back (x = "ranges").
Detect(dllPath, folder, valid, x, n, d) ==
    LET found == list_models(dllPath, folder, valid)
        sp == [speak EXCEPT !.models = IF kind = "piper"
                                       THEN ModelFolder(dllPath, folder, valid)
                                       ELSE "unlisted"]
        det == [sp EXCEPT !.detected = TRUE]
    IN  /\ ~crashed
        /\ speak.pc = "detect"
        /\ kind = "sapi" => (dllPath = "ok" /\ folder = "listed" /\ valid = ConfigPaths)
        /\ IF kind = "piper" /\ ~found.some
           THEN SpeakReturns(Ret("S_OK", Null), sp)
           ELSE IF x = "panic"
           THEN SpeakReturns(Panic(d), CollabFailure(det))
           ELSE IF n = 0
           THEN SpeakReturns(Ret("S_OK", Null), det)
           ELSE /\ speak' = [det EXCEPT !.pc = "range", !.ranges = n]
                /\ UNCHANGED <<last, crashed>>
        /\ UNCHANGED <<threads, piper, unload, calc, kind, initialized, module_arc, factories,
                       engines>>

\* The call goes on after a range is finished: the next range, or Ok(()).
NextRange(sp) ==
    IF sp.ranges > 0
    THEN /\ speak' = [sp EXCEPT !.pc = "range"]
         /\ UNCHANGED <<last, crashed>>
    ELSE SpeakReturns(Ret("S_OK", Null), sp)

\* The Mutex around the Piper model cache after a range whose outcome is x:
\* a panic while the guard is held (the model fails to load, the synthesizer
\* for the cache fails to build) poisons it for the rest of the instance's life.
cache_after(cache, x) == IF x = "load_panic" THEN "poisoned" ELSE cache

\* One pass of `for lang_range in detected_language_ranges` up to the write
\* loop: voice selection and synthesis. x: "err" (a WinRT or host call fails
\* with `?`, SAPI engine only), "panic" (an expect or a slice index fails),
\* "load_panic" (Piper: an expect fails while the model cache is locked),
\* "poisoned" (Piper: cache.lock().unwrap() on a poisoned Mutex panics),
\* "direct" (Piper: the model's audio format is not 22050 Hz mono 16 bit, so
\* none of its `size` bytes go to the sink), or "ok" with a stream of `size`
\* bytes.
RangeStart(x, size, err, d) ==
    LET sp == [speak EXCEPT !.ranges = @ - 1, !.offered = 0]
        audio == IF kind = "sapi" THEN wav_data(size).len ELSE size
        poisoned == kind = "piper" /\ engines[speak.eng].cache = "poisoned"
    IN  /\ ~crashed
        /\ speak.pc = "range"
        /\ x = "err" => kind = "sapi"
        /\ x \in {"direct", "load_panic"} => kind = "piper"
        /\ (x = "poisoned") <=> poisoned
        /\ x = "ok" => size \in (IF kind = "sapi" THEN SapiStreamSizes ELSE PiperAudioSizes)
        /\ x = "direct" => size \in PiperAudioSizes
        /\ engines' = [engines EXCEPT
                         ![speak.eng].cache = cache_after(@, x)]
        /\ IF x = "err" THEN SpeakReturns(propagate(err), CollabFailure(sp))
           ELSE IF x \in {"panic", "load_panic"}
           THEN SpeakReturns(Panic(d), CollabFailure(sp))
           ELSE IF x = "poisoned" THEN SpeakReturns(Panic(0), sp)
           ELSE IF x = "direct"
           THEN \* the range's audio goes to the audio device or nowhere
                NextRange([sp EXCEPT !.size = size, !.sunk = 0])
           ELSE IF kind = "sapi" /\ wav_data(size).panic
           THEN \* &buffer[44..] on a shorter buffer panics
                SpeakReturns(Panic(0), CollabFailure(sp))
           ELSE /\ speak' = [sp EXCEPT !.pc = "write", !.remaining = audio,
                                       !.size = audio, !.sunk = 0]
                /\ UNCHANGED <<last, crashed>>
        /\ UNCHANGED <<threads, piper, unload, calc, kind, initialized, module_arc, factories>>

\* The history counters count up to these values and then stay: the Writes of
\* a call whose sink runs short MaxShortWrites times at most, and the bytes a
\* range's sink can have consumed beyond the range's size (one per short
\* Write of the SAPI engine).
MaxWrites == 2 * MaxRanges + MaxShortWrites

\* The sink's answers to a Write of n bytes when it has run short `short`
\* times in this call: at most MaxShortWrites short answers per call.
ConsumedBounded(n, short) == {k \in Consumed(n) : k < n => short < MaxShortWrites}

\* The sink's answers to a Write of n bytes when every Write that does not
\* fail consumes a positive number of bytes (none when nothing was offered).
ConsumedPositive(n) == {k \in Consumed(n) : k > 0 \/ n = 0}

\* output_site.Write: the sink fails (the `?` returns the error) or consumes
\* k of the offered bytes; the loop breaks when the buffer is empty.
SinkWrite(fails, err, k) ==
    LET n == Offered(speak.remaining)
        sp == [speak EXCEPT
                 !.writes = Min(@ + 1, MaxWrites),
                 !.unpolled = TRUE,
                 !.missedPoll = @ \/ speak.unpolled,
                 !.short = IF ~fails /\ k < n THEN Min(@ + 1, MaxShortWrites) ELSE @,
                 !.sunk = IF fails THEN @ ELSE Min(@ + k, speak.size + MaxShortWrites),
                 !.remaining = IF fails THEN @ ELSE @ - Advance(k),
                 !.offered = n, !.polled = {}, !.reread = {}]
    IN  /\ ~crashed
        /\ speak.pc = "write"
        /\ ~fails => k \in Consumed(n)
        /\ IF fails
           THEN SpeakReturns(propagate(err), [CollabFailure(sp) EXCEPT !.sinkErr = err])
           ELSE IF sp.remaining = 0 THEN NextRange(sp)
           ELSE /\ speak' = [sp EXCEPT !.pc = "poll"]
                /\ UNCHANGED <<last, crashed>>
        /\ UNCHANGED <<threads, piper, unload, calc, kind, initialized, module_arc, factories, engines>>

\* A skip that drops what is left of the range.
skip_rest_of_range(sp) == [sp EXCEPT !.remaining = 0]

\* log::trace!("Skip actions are not implemented"): nothing changes.
skip_not_implemented(sp) == sp

\* A loop that looks at the rate and volume flags before the Abort flag.
settings_reread_despite_abort(k, actions) ==
    IF k = "sapi" THEN actions \cap {"RATE", "VOLUME"} ELSE {}

\* The host settings the loop reads again (GetRate / GetVolume), converts
\* (sapi_rate_to_modern / sapi_volume_to_modern) and hands to synth_options
\* when the flags are `actions`: the SAPI engine those whose flag is set, the
\* Piper engine none (`// TODO: handle other actions`).
settings_reread(k, actions) ==
    IF k = "sapi" /\ ~AbortRequested(actions) THEN actions \cap {"RATE", "VOLUME"} ELSE {}

\* output_site.GetActions and what the loop does with the flags. The SAPI
\* engine reads the new rate / volume from the host and hands it to the
\* synthesizer: host is "ok", "err" (one of these calls fails, the `?`
\* returns the error) or "overflow" (the rate is i32::MIN and the build
\* checks arithmetic overflow, so sapi_rate_to_modern panics).
Poll(actions, host, err) ==
    LET reads == settings_reread(kind, actions) # {}
        sp0 == [speak EXCEPT
                 !.unpolled = FALSE,
                 !.abortSeen = @ \/ ("ABORT" \in actions),
                 !.writesAtAbort = IF ~speak.abortSeen /\ "ABORT" \in actions
                                   THEN speak.writes ELSE @,
                 !.offered = 0,
                 !.polled = actions,
                 !.reread = settings_reread(kind, actions)]
        sp == IF "SKIP" \in actions /\ kind = "sapi" THEN skip_not_implemented(sp0) ELSE sp0
    IN  /\ ~crashed
        /\ speak.pc = "poll"
        /\ host = "overflow" => (kind = "sapi" /\ "RATE" \in actions)
        /\ IF actions = {}
           THEN /\ speak' = [sp EXCEPT !.pc = "write"]
                /\ UNCHANGED <<last, crashed>>
           ELSE IF AbortRequested(actions)
           THEN SpeakReturns(Ret("S_OK", Null), sp)
           ELSE IF reads /\ host = "err"
           THEN SpeakReturns(propagate(err), CollabFailure(sp))
           ELSE IF reads /\ host = "overflow"
           THEN SpeakReturns(Panic(0), CollabFailure(sp))
           ELSE /\ speak' = [sp EXCEPT !.pc = "write"]
                /\ UNCHANGED <<last, crashed>>
        /\ UNCHANGED <<threads, piper, unload, calc, kind, initialized, module_arc, factories, engines>>

(* -------------------------- Piper model cache -------------------------- *)

\* The Speak call of thread t on the Piper engine instance ends with status hr.
PiperReturns(pp, t, hr) ==
    [pp EXCEPT !.calls[t] = [@ EXCEPT !.pc = "returned", !.hr = hr]]

\* std::sync::Mutex when the thread that holds it panics: it is poisoned.
mutex_panic(pp) == [pp EXCEPT !.lock = "poisoned", !.owner = 0]

\* The guard goes out of scope at the end of the block (piper lib.rs:222).
mutex_unlock(pp) == [pp EXCEPT !.lock = "free", !.owner = 0]

\* Does thread t hold the lock?
holds_lock(pp, t) == pp.lock = "held" /\ pp.owner = t

\* piper lib.rs speak on thread t up to the loop over the ranges, when
\* list_models found the models and the detection gave n ranges.
PiperSpeak(t, n) ==
    /\ ~crashed
    /\ piper.calls[t].pc = "idle"
    /\ piper' = [piper EXCEPT !.calls[t] = [@ EXCEPT !.pc = "range", !.ranges = n]]
    /\ UNCHANGED <<threads, unload, calc, kind, initialized, module_arc, factories, engines,
                   speak, last, crashed>>

\* The next range: the preferred model is `path` and self.cache.lock().unwrap()
\* takes the lock, waits while another thread holds it, or panics when the
\* Mutex is poisoned (catch_unwind_and_fail turns that into E_FAIL).
PiperLock(t, path) ==
    LET c == piper.calls[t]
        pp == [piper EXCEPT !.calls[t] = [@ EXCEPT !.ranges = @ - 1, !.path = path]]
    IN  /\ ~crashed
        /\ c.pc = "range"
        /\ piper.lock # "held"
        /\ piper' = IF piper.lock = "poisoned"
                    THEN [PiperReturns(pp, t, "E_FAIL") EXCEPT
                            !.missedCache = @ \/ piper.loads[path] > 0]
                    ELSE [pp EXCEPT !.lock = "held", !.owner = t, !.calls[t].pc = "locked"]
        /\ UNCHANGED <<threads, unload, calc, kind, initialized, module_arc, factories, engines,
                       speak, last, crashed>>

\* guard.get(&preferred_model.path): a hit clones the cached model and the
\* guard is dropped; a miss goes on to read the model.
PiperLookup(t) ==
    LET c == piper.calls[t]
        pp == [piper EXCEPT !.unlockedAccess = @ \/ ~holds_lock(piper, t)]
    IN  /\ ~crashed
        /\ c.pc = "locked"
        /\ piper' = IF c.path \in piper.cached
                    THEN [mutex_unlock(pp) EXCEPT !.calls[t].pc = "synth"]
                    ELSE [pp EXCEPT !.calls[t].pc = "miss",
                                    !.missedCache = @ \/ piper.loads[c.path] > 0]
        /\ UNCHANGED <<threads, unload, calc, kind, initialized, module_arc, factories, engines,
                       speak, last, crashed>>

\* piper_rs::from_config_path(..).expect(..): the model is read from disk, or
\* the expect panics with the guard held.
PiperLoad(t, ok) ==
    LET c == piper.calls[t]
    IN  /\ ~crashed
        /\ c.pc = "miss"
        /\ piper' = IF ok
                    THEN [piper EXCEPT !.loads[c.path] = IF @ < 2 THEN @ + 1 ELSE @,
                                       !.calls[t].pc = "insert"]
                    ELSE PiperReturns(mutex_panic(piper), t, "E_FAIL")
        /\ UNCHANGED <<threads, unload, calc, kind, initialized, module_arc, factories, engines,
                       speak, last, crashed>>

\* guard.insert(path, PiperSpeechSynthesizer::new(model.clone()).expect(..)):
\* the synthesizer is put into the cache and the guard is dropped, or the
\* expect panics with the guard held.
PiperInsert(t, ok) ==
    LET c == piper.calls[t]
        pp == [piper EXCEPT !.unlockedAccess = @ \/ ~holds_lock(piper, t)]
    IN  /\ ~crashed
        /\ c.pc = "insert"
        /\ piper' = IF ok
                    THEN [mutex_unlock(pp) EXCEPT !.cached = @ \cup {c.path},
                                                  !.calls[t].pc = "synth"]
                    ELSE PiperReturns(mutex_panic(pp), t, "E_FAIL")
        /\ UNCHANGED <<threads, unload, calc, kind, initialized, module_arc, factories, engines,
                       speak, last, crashed>>

\* audio_output_info, PiperSpeechSynthesizer::new and synthesize_parallel,
\* each with an expect.
PiperSynthesize(t, ok) ==
    LET pp == [piper EXCEPT !.lockedWork = @ \/ holds_lock(piper, t)]
    IN  /\ ~crashed
        /\ piper.calls[t].pc = "synth"
        /\ piper' = IF ok THEN [pp EXCEPT !.calls[t].pc = "write"]
                    ELSE PiperReturns(pp, t, "E_FAIL")
        /\ UNCHANGED <<threads, unload, calc, kind, initialized, module_arc, factories, engines,
                       speak, last, crashed>>

\* The write loop of the range as a whole: it ends when the buffer is empty
\* ("done"), on Abort ("abort", Ok(())) or with the sink's error ("err").
PiperWrite(t, end) ==
    LET c == piper.calls[t]
        pp == [piper EXCEPT !.lockedWork = @ \/ holds_lock(piper, t)]
    IN  /\ ~crashed
        /\ c.pc = "write"
        /\ piper' = IF end = "err" THEN PiperReturns(pp, t, "E_ABORT")
                    ELSE IF end = "abort" \/ c.ranges = 0 THEN PiperReturns(pp, t, "S_OK")
                    ELSE [pp EXCEPT !.calls[t].pc = "range"]
        /\ UNCHANGED <<threads, unload, calc, kind, initialized, module_arc, factories, engines,
                       speak, last, crashed>>

\* The caller on thread t has looked at what Speak returned.
PiperTakesResult(t) ==
    /\ ~crashed
    /\ piper.calls[t].pc = "returned"
    /\ piper' = [piper EXCEPT !.calls[t] = IdlePiperCall]
    /\ UNCHANGED <<threads, unload, calc, kind, initialized, module_arc, factories, engines,
                   speak, last, crashed>>

(* --------------------------- pure helpers ------------------------------ *)

\* Language codes as sequences of characters.
SEPARATORS == {"_", "-"}
en == <<"e", "n">>
fr == <<"f", "r">>
de == <<"d", "e">>
en_US == <<"e", "n", "-", "U", "S">>
en_GB == <<"e", "n", "-", "G", "B">>
fr_FR == <<"f", "r", "-", "F", "R">>

\* The codes the match rule is applied to: plain, with a region, with the
\* other separator, with two separators, and degenerate ones.
LanguageCodes ==
    {en, fr, de, en_US, en_GB, fr_FR,
     <<"e", "n", "_", "U", "S">>, <<"e", "n", "-", "U", "S", "_", "x">>,
     <<"e", "n", "-">>, <<"-", "e", "n">>, <<"-">>, <<>>}

\* str::contains with a set of characters as the pattern.
contains(s, seps) == \E i \in DOMAIN s : s[i] \in seps

\* A split at the last separator instead of the first.
rsplit_once(s, seps) ==
    IF contains(s, seps)
    THEN LET i == CHOOSE k \in DOMAIN s :
                     s[k] \in seps /\ \A m \in DOMAIN s : s[m] \in seps => m <= k
         IN  [some |-> TRUE, prefix |-> SubSeq(s, 1, i - 1),
              suffix |-> SubSeq(s, i + 1, Len(s))]
    ELSE [some |-> FALSE, prefix |-> <<>>, suffix |-> <<>>]

\* str::split_once: the parts before and after the first separator, None
\* when there is no separator.
split_once(s, seps) ==
    IF contains(s, seps)
    THEN LET i == CHOOSE k \in DOMAIN s :
                     s[k] \in seps /\ \A m \in DOMAIN s : s[m] \in seps => k <= m
         IN  [some |-> TRUE, prefix |-> SubSeq(s, 1, i - 1),
              suffix |-> SubSeq(s, i + 1, Len(s))]
    ELSE [some |-> FALSE, prefix |-> <<>>, suffix |-> <<>>]

\* .split_once(SEPARATORS).map(|(prefix, _)| prefix).unwrap_or(code)
prefix_or_all(code) ==
    LET sp == split_once(code, SEPARATORS)
    IN  IF sp.some THEN sp.prefix ELSE code

\* detect_languages.rs equal_language_codes.
equal_language_codes(first, second) ==
    IF contains(first, SEPARATORS) /\ contains(second, SEPARATORS)
    THEN first = second
    ELSE prefix_or_all(first) = prefix_or_all(second)

\* A voice whose Language() call fails has no language (`.ok()` gives None).
NoLanguage == <<"NoLanguage">>

\* The priority of a voice that matches no detected language: usize::MAX,
\* which is above every index (idx is not looked at when `max` is set).
usize_MAX == [max |-> TRUE, idx |-> 0]

\* detect_languages.rs get_priority followed by the caller's
\* `.unwrap_or(usize::MAX)`: the position of the first detected language
\* that matches the voice's language.
get_priority(languages, lang) ==
    IF lang # NoLanguage
       /\ \E i \in DOMAIN languages : equal_language_codes(languages[i], lang)
    THEN [max |-> FALSE,
          idx |-> CHOOSE i \in DOMAIN languages :
                    /\ equal_language_codes(languages[i], lang)
                    /\ \A k \in DOMAIN languages :
                          equal_language_codes(languages[k], lang) => i <= k]
    ELSE usize_MAX

\* A comparison that also holds for equal priorities.
priority_le(p, q) == q.max \/ (~p.max /\ p.idx <= q.idx)

\* `priority < selected_priority` on usize values.
priority_lt(p, q) == ~p.max /\ (q.max \/ p.idx < q.idx)

\* The loop `for voice in SpeechSynthesizer::AllVoices()?` from voice i on,
\* with voice `selected` (0: the synthesizer's default voice) selected so far.
RECURSIVE select_from(_, _, _, _, _)
select_from(languages, voices, i, selected, selected_priority) ==
    IF i > Len(voices) THEN selected
    ELSE LET priority == get_priority(languages, voices[i])
         IN  IF priority_lt(priority, selected_priority)
             THEN select_from(languages, voices, i + 1, i, priority)
             ELSE select_from(languages, voices, i + 1, selected, selected_priority)

\* The SAPI engine's voice selection for one range: the index of the voice
\* given to SetVoice, 0 for the default voice.
select_voice(languages, default, voices) ==
    select_from(languages, voices, 1, 0, get_priority(languages, default))

\* The ends of the 32-bit signed and the 16-bit unsigned range.
I32_MIN == -2147483647 - 1
I32_MAX == 2147483647
U16_MAX == 65535

\* f64::clamp
clamp(x, lo, hi) == IF x < lo THEN lo ELSE IF x > hi THEN hi ELSE x

\* i32::abs: i32::MIN has no absolute value; a build with overflow checks
\* panics, a build without them gives i32::MIN back.
abs_i32(x, overflow_checks) ==
    IF x = I32_MIN
    THEN (IF overflow_checks THEN [panic |-> TRUE, v |-> 0]
          ELSE [panic |-> FALSE, v |-> I32_MIN])
    ELSE [panic |-> FALSE, v |-> IF x < 0 THEN -x ELSE x]

\* dll lib.rs sapi_rate_to_modern, the result in twentieths (1.0 is 20):
\* abs / 20.0 clamped to [0, 0.5] is clamp(abs, 0, 10) twentieths, rate / 2.0
\* clamped to [0, 5] is 10 * clamp(rate, 0, 10) twentieths.
sapi_rate_to_modern(sapi_rate, overflow_checks) ==
    IF sapi_rate < 0
    THEN LET a == abs_i32(sapi_rate, overflow_checks)
         IN  IF a.panic THEN [panic |-> TRUE, v |-> 0]
             ELSE [panic |-> FALSE, v |-> 20 - clamp(a.v, 0, 10)]
    ELSE IF sapi_rate = 0 THEN [panic |-> FALSE, v |-> 20]
    ELSE [panic |-> FALSE, v |-> 20 + 10 * clamp(sapi_rate, 0, 10)]

\* The volume as a fraction of 100 with no clamp.
sapi_volume_unclamped(sapi_volume) == sapi_volume

\* dll lib.rs sapi_volume_to_modern, the result in hundredths (1.0 is 100).
sapi_volume_to_modern(sapi_volume) == clamp(sapi_volume, 0, 100)

\* Host rates and volumes looked at: the documented range, values around
\* the clamps and the ends of the integer types.
RateInputs ==
    {I32_MIN, I32_MIN + 1, -30, -11, -10, -9, -1, 0, 1, 9, 10, 11, 30, I32_MAX}
VolumeInputs == {0, 1, 50, 99, 100, 101, 150, U16_MAX}

\* Sequences over S of length at most n.
SeqsUpTo(S, n) == UNION {[1..k -> S] : k \in 0..n}

\* The languages voices and detected ranges carry in the selection model.
VoiceLanguages == {en, en_US, fr, de}

\* The WAVEFORMATEX an engine describes its audio with: SAPI engine 16 kHz,
\* Piper engine 22.05 kHz, both PCM, mono, 16 bit.
WAVEFORMATEX(k) ==
    LET nSamplesPerSec == IF k = "sapi" THEN 16000 ELSE 22050
        nBlockAlign == 2
    IN  [wFormatTag |-> "WAVE_FORMAT_PCM", nChannels |-> 1,
         nBlockAlign |-> nBlockAlign, wBitsPerSample |-> 16,
         nSamplesPerSec |-> nSamplesPerSec,
         nAvgBytesPerSec |-> nSamplesPerSec * nBlockAlign, cbSize |-> 0]

\* The wave field of a SpeechFormat that is not Wave(..).
NoWave ==
    [wFormatTag |-> "none", nChannels |-> 0, nBlockAlign |-> 0, wBitsPerSample |-> 0,
     nSamplesPerSec |-> 0, nAvgBytesPerSec |-> 0, cbSize |-> 0]

\* Option<SpeechFormat>: None, Some(DebugText), Some(Wave(w)).
SpeechFormat(tag, wave) == [tag |-> tag, wave |-> wave]

\* The wave formats a host asks for: the engines' own ones and others.
WaveRequests ==
    {[wFormatTag |-> t, nChannels |-> c, nBlockAlign |-> c * (b \div 8),
      wBitsPerSample |-> b, nSamplesPerSec |-> r,
      nAvgBytesPerSec |-> r * c * (b \div 8), cbSize |-> z] :
        t \in {"WAVE_FORMAT_PCM", "WAVE_FORMAT_ADPCM"}, c \in {1, 2}, b \in {8, 16},
        r \in {8000, 16000, 22050, 44100}, z \in {0, 2}}

TargetFormats ==
    {SpeechFormat("None", NoWave), SpeechFormat("DebugText", NoWave)}
        \cup {SpeechFormat("Wave", w) : w \in WaveRequests}

\* get_output_format of engine k with the whole value it returns.
engine_get_output_format(k, target_format) ==
    IF get_output_format(target_format.tag) = "DebugText"
    THEN SpeechFormat("DebugText", NoWave)
    ELSE SpeechFormat("Wave", WAVEFORMATEX(k))

\* The GUIDs MappingGetServices can report for a service.
ELS_GUID_LANGUAGE_DETECTION == "ELS_GUID_LANGUAGE_DETECTION"
ServiceGuids == {ELS_GUID_LANGUAGE_DETECTION, "ELS_GUID_SCRIPT_DETECTION"}

\* `len != 1` negated: the service list has exactly one entry.
len_is_one(len) == len = 1

\* DetectionService::new. getServices is what MappingGetServices returns
\* ("ok" or a failure), guids the GUIDs of the services it found, and
\* debug_assertions whether the build checks the preconditions of
\* slice::from_raw_parts (a null pointer, which is what an empty result
\* leaves in services_ptr, then aborts the process instead of giving an empty
\* slice). services[0] is read before the length is looked at.
DetectionService_new(getServices, guids, debug_assertions) ==
    LET len == Len(guids)
    IN  IF getServices # "ok" THEN [kind |-> "Err", err |-> "MappingGetServices"]
        ELSE IF len = 0
        THEN IF debug_assertions THEN [kind |-> "abort", err |-> "none"]
             ELSE [kind |-> "panic", err |-> "none"]
        ELSE IF guids[1] # ELS_GUID_LANGUAGE_DETECTION
        THEN [kind |-> "Err", err |-> "InvalidServiceGuid"]
        ELSE IF ~len_is_one(len)
        THEN [kind |-> "Err", err |-> "MultipleServicesFound"]
        ELSE [kind |-> "Ok", err |-> "none"]

\* The characters of the texts looked at, with the number of bytes each takes
\* in UTF-8 and of code units it takes in UTF-16.
Chars == {"a", "e_acute", "emoji"}
len_utf8(c) == IF c = "a" THEN 1 ELSE IF c = "e_acute" THEN 2 ELSE 4
len_utf16(c) == IF c = "emoji" THEN 2 ELSE 1

\* str::encode_utf16().count() of the characters i..j of text.
RECURSIVE encode_utf16_count(_, _, _)
encode_utf16_count(text, i, j) ==
    IF i > j THEN 0 ELSE len_utf16(text[i]) + encode_utf16_count(text, i + 1, j)

\* The byte offset in the String of the character boundary after n characters.
RECURSIVE byte_index(_, _)
byte_index(text, n) ==
    IF n = 0 THEN 0 ELSE len_utf8(text[n]) + byte_index(text, n - 1)

\* The number of characters before byte offset b (a character boundary).
chars_before(text, b) == CHOOSE n \in 0..Len(text) : byte_index(text, n) = b

\* usize subtraction of one: at zero a build with overflow checks panics and
\* one without wraps around to usize::MAX.
usize_sub_1(x, overflow_checks) ==
    IF x > 0 THEN [panic |-> FALSE, max |-> FALSE, idx |-> x - 1]
    ELSE IF overflow_checks THEN [panic |-> TRUE, max |-> FALSE, idx |-> 0]
    ELSE [panic |-> FALSE, max |-> TRUE, idx |-> 0]

\* `let end = start + len - 1;`
lingua_end(start, len, overflow_checks) == usize_sub_1(start + len, overflow_checks)

\* LinguaDetectionService::recognize_text, Lingua state, for one detected
\* span: the detector reports byte offsets start_index..end_index into the
\* String; the range is given in UTF-16 code units.
lingua_range(text, start_index, end_index, overflow_checks) ==
    LET i == chars_before(text, start_index)
        j == chars_before(text, end_index)
        start == encode_utf16_count(text, 1, i)
        len == encode_utf16_count(text, i + 1, j)
        end == lingua_end(start, len, overflow_checks)
    IN  [panic |-> end.panic, start |-> start, end |-> end]

\* DetectionService::recognize_text for one range the OS service reports:
\* dwStartIndex and dwEndIndex are taken over as they are.
microsoft_range(dwStartIndex, dwEndIndex) ==
    [panic |-> FALSE, start |-> dwStartIndex,
     end |-> [panic |-> FALSE, max |-> FALSE, idx |-> dwEndIndex]]

\* text_utf16.strip_suffix(&[0]).unwrap_or(text_utf16): the number of code
\* units submitted to the OS service.
stripped_len(len, trailing_nul) == IF trailing_nul /\ len > 0 THEN len - 1 ELSE len

\* The texts the detectors are run on.
Texts == SeqsUpTo(Chars, MaxTextChars)
ByteBoundaries(text) == {byte_index(text, n) : n \in 0..Len(text)}

\* Each helper is applied once, to one input, from the initial state.
Call_equal_language_codes(first, second) ==
    /\ calc.fn = "none"
    /\ calc' = [fn |-> "equal_language_codes", first |-> first, second |-> second,
                out |-> equal_language_codes(first, second)]
    /\ UNCHANGED <<threads, piper, kind, initialized, module_arc, factories, engines, speak, last, crashed,
                   unload>>

Call_select_voice(languages, default, voices) ==
    /\ calc.fn = "none"
    /\ calc' = [fn |-> "select_voice", languages |-> languages, default |-> default,
                voices |-> voices, out |-> select_voice(languages, default, voices)]
    /\ UNCHANGED <<threads, piper, kind, initialized, module_arc, factories, engines, speak, last, crashed,
                   unload>>

Call_sapi_rate_to_modern(sapi_rate, overflow_checks) ==
    /\ calc.fn = "none"
    /\ calc' = [fn |-> "sapi_rate_to_modern", sapi_rate |-> sapi_rate,
                out |-> sapi_rate_to_modern(sapi_rate, overflow_checks)]
    /\ UNCHANGED <<threads, piper, kind, initialized, module_arc, factories, engines, speak, last, crashed,
                   unload>>

Call_sapi_volume_to_modern(sapi_volume) ==
    /\ calc.fn = "none"
    /\ calc' = [fn |-> "sapi_volume_to_modern", sapi_volume |-> sapi_volume,
                out |-> sapi_volume_to_modern(sapi_volume)]
    /\ UNCHANGED <<threads, piper, kind, initialized, module_arc, factories, engines, speak, last, crashed,
                   unload>>

Call_get_output_format(k, target_format) ==
    /\ calc.fn = "none"
    /\ calc' = [fn |-> "get_output_format", engine |-> k, target |-> target_format,
                out |-> engine_get_output_format(k, target_format)]
    /\ UNCHANGED <<threads, piper, kind, initialized, module_arc, factories, engines, speak, last, crashed,
                   unload>>

Call_DetectionService_new(getServices, guids, debug_assertions) ==
    /\ calc.fn = "none"
    /\ calc' = [fn |-> "DetectionService_new", getServices |-> getServices,
                guids |-> guids,
                out |-> DetectionService_new(getServices, guids, debug_assertions)]
    /\ UNCHANGED <<threads, piper, kind, initialized, module_arc, factories, engines, speak, last, crashed,
                   unload>>

\* recognize_text through the in-process detector, for one detected span.
Call_recognize_text_lingua(text, start_index, end_index, overflow_checks) ==
    /\ calc.fn = "none"
    /\ start_index <= end_index
    /\ calc' = [fn |-> "recognize_text", service |-> "Lingua",
                len |-> encode_utf16_count(text, 1, Len(text)),
                span |-> end_index - start_index,
                out |-> lingua_range(text, start_index, end_index, overflow_checks)]
    /\ UNCHANGED <<threads, piper, kind, initialized, module_arc, factories, engines, speak, last, crashed,
                   unload>>

\* recognize_text through the OS service, for one range it reports: a range
\* inside the text that was submitted.
Call_recognize_text_microsoft(len, trailing_nul, dwStartIndex, dwEndIndex) ==
    /\ calc.fn = "none"
    /\ dwStartIndex <= dwEndIndex
    /\ dwEndIndex < stripped_len(len, trailing_nul)
    /\ calc' = [fn |-> "recognize_text", service |-> "Microsoft", len |-> len,
                span |-> dwEndIndex - dwStartIndex + 1,
                out |-> microsoft_range(dwStartIndex, dwEndIndex)]
    /\ UNCHANGED <<threads, piper, kind, initialized, module_arc, factories, engines, speak, last, crashed,
                   unload>>

\* What the language data of one result range of the OS service can be: a
\* list of codes ending in two nuls, data without the trailing nul, or code
\* units that are not valid UTF-16.
RangeData == {"ok", "no_nul", "bad_utf16"}

\* The position of the first result range whose data is not "ok", 0 when
\* there is none.
RECURSIVE first_bad(_, _)
first_bad(ranges, i) ==
    IF i > Len(ranges) THEN 0
    ELSE IF ranges[i] # "ok" THEN i
    ELSE first_bad(ranges, i + 1)

\* DetectionService::recognize_text with the calls it makes on the property
\* bag: `recognized` counts the MappingRecognizeText calls that succeeded,
\* `frees` the MappingFreePropertyBag calls. recognize and free are what the
\* two calls return, ranges the data of the result ranges.
recognize_text_bag(recognize, ranges, free) ==
    LET bad == first_bad(ranges, 1)
    IN  IF recognize # "ok"
        THEN [kind |-> "Err", err |-> "MappingRecognizeText", recognized |-> 0, frees |-> 0]
        ELSE IF bad # 0 /\ ranges[bad] = "no_nul"
        THEN \* .expect("there should be trailing nul characters")
             [kind |-> "panic", err |-> "none", recognized |-> 1, frees |-> 0]
        ELSE IF bad # 0
        THEN \* .map_err(DetectionError::LanguageInvalidUtf16)?
             [kind |-> "Err", err |-> "LanguageInvalidUtf16", recognized |-> 1, frees |-> 0]
        ELSE IF free # "ok"
        THEN [kind |-> "Err", err |-> "MappingFreePropertyBag", recognized |-> 1, frees |-> 1]
        ELSE [kind |-> "Ok", err |-> "none", recognized |-> 1, frees |-> 1]

Call_recognize_text_bag(recognize, ranges, free) ==
    /\ calc.fn = "none"
    /\ calc' = [fn |-> "recognize_text_bag", recognize |-> recognize, ranges |-> ranges,
                free |-> free, out |-> recognize_text_bag(recognize, ranges, free)]
    /\ UNCHANGED <<threads, piper, kind, initialized, module_arc, factories, engines, speak,
                   last, crashed, unload>>

\* The header of a synthesized stream is dropped, for one stream size.
Call_wav_data(size) ==
    /\ calc.fn = "none"
    /\ calc' = [fn |-> "wav_data", size |-> size, out |-> wav_data(size)]
    /\ UNCHANGED <<threads, piper, kind, initialized, module_arc, factories, engines, speak,
                   last, crashed, unload>>

(* --------------------------- specification ----------------------------- *)

Depths == 0..MaxPayloadDepth

\* Payload depths that matter for an outcome: a call that does not panic has
\* no payload.
DepthsIf(panics) == IF panics THEN Depths ELSE {0}

\* Class objects and engine instances are created and released.
ObjectNext ==
    \/ \E rclsid \in {NullPtr, CLSID_TTS_ENGINE, OtherGuid},
          riid \in {NullPtr, IID_IClassFactory, IID_IUnknown},
          ppvNull \in BOOLEAN, pt \in {"none", "start", "end"} :
            \E d \in DepthsIf(pt # "none") :
                DllGetClassObject(rclsid, riid, ppvNull, pt, d)
    \/ \E f \in FactorySlots, ppvNull \in BOOLEAN, riid \in {NullPtr} \cup Guids,
          punk \in BOOLEAN, ctor \in {Ret("S_OK", "engine")} \cup Panics :
            CreateInstance(f, ppvNull, riid, punk, ctor)
    \/ \E f \in FactorySlots : ReleaseFactory(f)
    \/ \E e \in EngineSlots, o \in {Ret("S_OK", Null)} \cup Panics : ReleaseEngine(e, o)
    \/ HostTakesResult

\* The host's other calls, one at a time.
CallNext ==
    \/ \E panics \in BOOLEAN : \E d \in DepthsIf(panics) : DllCanUnloadNow(panics, d)
    \/ \E o \in {Ret("S_OK", Null)} \cup Panics : DllRegisterServer(o)
    \/ \E o \in {Ret("S_OK", Null)} \cup Panics : DllUnregisterServer(o)
    \/ \E f \in FactorySlots : LockServer(f)
    \/ \E e \in EngineSlots, tok \in Tokens \cup {NullPtr}, hook \in HookOutcomes :
            SetObjectToken(e, tok, hook)
    \/ \E e \in EngineSlots : GetObjectToken(e)
    \/ \E e \in EngineSlots, target \in {"None", "DebugText", "Wave"},
          x \in {"ok", "assert_panic", "engine_err", "alloc_fail", "engine_panic"} :
            \E d \in DepthsIf(x \in {"assert_panic", "engine_panic"}) :
                GetOutputFormat(e, target, x, d)
    \/ \E e \in EngineSlots, assertFails \in BOOLEAN, siteNull \in BOOLEAN :
            \E d \in DepthsIf(assertFails \/ siteNull) : SpeakCall(e, assertFails, siteNull, d)

\* The steps of the engine's speak between the collaborators' calls. `sizes`
\* are the audio sizes the synthesizers return; with `positive` every Write
\* that does not fail consumes at least one byte, without it the sink runs
\* short at most MaxShortWrites times per call.
StreamNext(sizes, positive) ==
    \/ \E dllPath \in {"ok", "E_FAIL"}, folder \in {"missing", "unreadable", "listed"},
          valid \in SUBSET ConfigPaths, x \in {"panic", "ranges"} :
            \E n \in (IF x = "ranges" THEN 0..MaxRanges ELSE {0}), d \in DepthsIf(x = "panic") :
                Detect(dllPath, folder, valid, x, n, d)
    \/ \E x \in {"err", "panic", "load_panic", "poisoned", "direct", "ok"} :
            \E size \in (IF x \in {"ok", "direct"} THEN sizes ELSE {0}),
               err \in (IF x = "err" THEN CollaboratorErrors ELSE {"E_ABORT"}),
               d \in DepthsIf(x \in {"panic", "load_panic"}) :
                RangeStart(x, size, err, d)
    \/ \E fails \in BOOLEAN :
            \E err \in (IF fails THEN CollaboratorErrors ELSE {"E_ABORT"}),
               k \in (IF fails THEN {0}
                      ELSE IF positive THEN ConsumedPositive(Offered(speak.remaining))
                      ELSE ConsumedBounded(Offered(speak.remaining), speak.short)) :
                SinkWrite(fails, err, k)
    \/ \E actions \in ActionFlags :
            \E host \in (IF kind = "sapi" /\ actions \cap {"RATE", "VOLUME"} # {}
                                          /\ "ABORT" \notin actions
                         THEN {"ok", "err", "overflow"} ELSE {"ok"}) :
                \E err \in (IF host = "err" THEN CollaboratorErrors ELSE {"E_ABORT"}) :
                    Poll(actions, host, err)

Next ==
    \/ ObjectNext
    \/ CallNext
    \/ StreamNext(SapiStreamSizes \cup PiperAudioSizes, FALSE)

Spec == Init /\ [][Next]_vars

\* Audio short enough for one Write.
ShortAudioSizes == {size \in SapiStreamSizes \cup PiperAudioSizes : size < MaxWriteBytes}

\* Speak with a sink that consumes at least one byte of every Write it does
\* not fail, however often it runs short.
LiveStream == StreamNext(ShortAudioSizes, TRUE)

LiveNext ==
    \/ ObjectNext
    \/ CallNext
    \/ LiveStream

\* The thread that runs Speak keeps running: every collaborator it calls
\* returns, so the next step of the call is taken.
LiveSpec == Init /\ [][LiveNext]_vars /\ WF_vars(LiveStream)

\* DllCanUnloadNow on one thread while other threads create and release
\* class objects and engine instances.
ConcNext ==
    \/ ObjectNext
    \/ DllCanUnloadNow_read
    \/ \E panics \in BOOLEAN : \E d \in DepthsIf(panics) : DllCanUnloadNow_return(panics, d)
    \/ HostTakesUnloadResult

ConcSpec == Init /\ [][ConcNext]_vars

\* Several threads call SetObjectToken side by side on the one engine
\* instance the host has created, while the host asks for the token and the
\* output format and calls Speak with a text in which no range is detected.
\* The instance is not released while calls on it are on record.
TokenNext ==
    \/ DllGetClassObject(CLSID_TTS_ENGINE, IID_IClassFactory, FALSE, "none", 0)
    \/ \E f \in FactorySlots :
            /\ LiveEngines = {}
            /\ CreateInstance(f, FALSE, IID_ISpObjectWithToken, FALSE, Ret("S_OK", "engine"))
    \/ HostTakesResult
    \/ \E t \in Threads, e \in EngineSlots, tok \in Tokens \cup {NullPtr} :
            SetObjectToken_set(t, e, tok)
    \/ \E t \in Threads, hook \in {Ret("S_OK", Null), Ret("E_ABORT", Null), Panic(0)} :
            SetObjectToken_hook(t, hook)
    \/ \E t \in Threads : ThreadTakesResult(t)
    \/ \E e \in EngineSlots : GetObjectToken(e)
    \/ \E e \in EngineSlots : GetOutputFormat(e, "Wave", "ok", 0)
    \/ \E e \in EngineSlots : SpeakCall(e, FALSE, FALSE, 0)
    \/ Detect("ok", "listed", ConfigPaths, "ranges", 0, 0)

TokenSpec == Init /\ [][TokenNext]_vars

\* Several threads call entry points of the server side by side.
InitNext ==
    \/ \E t \in Threads, op \in InitEntryPoints : Entry_call_once(t, op)
    \/ \E t \in Threads, o \in {Ret("S_OK", Null)} \cup Panics : Entry_initialize(t, o)
    \/ \E t \in Threads, o \in {Ret("S_OK", Null)} \cup Panics : Entry_body(t, o)
    \/ \E t \in Threads : ThreadTakesResult(t)

InitSpec == Init /\ [][InitNext]_vars

\* Speak calls on one Piper engine instance, on one thread or side by side.
CacheNext ==
    \/ \E t \in Threads, n \in 1..MaxRanges : PiperSpeak(t, n)
    \/ \E t \in Threads, path \in ConfigPaths : PiperLock(t, path)
    \/ \E t \in Threads : PiperLookup(t)
    \/ \E t \in Threads, ok \in BOOLEAN : PiperLoad(t, ok)
    \/ \E t \in Threads, ok \in BOOLEAN : PiperInsert(t, ok)
    \/ \E t \in Threads, ok \in BOOLEAN : PiperSynthesize(t, ok)
    \/ \E t \in Threads, end \in {"done", "abort", "err"} : PiperWrite(t, end)
    \/ \E t \in Threads : PiperTakesResult(t)

CacheSpec == Init /\ [][CacheNext]_vars

\* The helper functions on their own, applied to every input looked at.
PureNext ==
    \/ /\ calc.fn = "none"
       /\ \E first \in LanguageCodes, second \in LanguageCodes :
            Call_equal_language_codes(first, second)
    \/ /\ calc.fn = "none"
       /\ \E languages \in SeqsUpTo(VoiceLanguages, MaxLanguages),
             default \in VoiceLanguages \cup {NoLanguage},
             voices \in SeqsUpTo(VoiceLanguages \cup {NoLanguage}, MaxVoices) :
            Call_select_voice(languages, default, voices)
    \/ /\ calc.fn = "none"
       /\ \E sapi_rate \in RateInputs, overflow_checks \in BOOLEAN :
            Call_sapi_rate_to_modern(sapi_rate, overflow_checks)
    \/ /\ calc.fn = "none"
       /\ \E sapi_volume \in VolumeInputs : Call_sapi_volume_to_modern(sapi_volume)
    \/ /\ calc.fn = "none"
       /\ \E k \in {"sapi", "piper"}, target_format \in TargetFormats :
            Call_get_output_format(k, target_format)
    \/ /\ calc.fn = "none"
       /\ \E getServices \in {"ok", "E_FAIL"}, guids \in SeqsUpTo(ServiceGuids, MaxServices),
             debug_assertions \in BOOLEAN :
            Call_DetectionService_new(getServices, guids, debug_assertions)
    \/ /\ calc.fn = "none"
       /\ \E text \in Texts, overflow_checks \in BOOLEAN :
            \E start_index \in ByteBoundaries(text), end_index \in ByteBoundaries(text) :
                Call_recognize_text_lingua(text, start_index, end_index, overflow_checks)
    \/ /\ calc.fn = "none"
       /\ \E len \in 0..MaxTextChars, trailing_nul \in BOOLEAN,
             dwStartIndex \in 0..MaxTextChars, dwEndIndex \in 0..MaxTextChars :
            Call_recognize_text_microsoft(len, trailing_nul, dwStartIndex, dwEndIndex)

    \/ /\ calc.fn = "none"
       /\ \E size \in SapiStreamSizes \cup {0, 44, 87} : Call_wav_data(size)

    \/ /\ calc.fn = "none"
       /\ \E recognize \in {"ok", "E_FAIL"}, ranges \in SeqsUpTo(RangeData, MaxRanges),
             free \in {"ok", "E_FAIL"} :
            Call_recognize_text_bag(recognize, ranges, free)

PureSpec == Init /\ [][PureNext]_vars

(* ------------------------------ claims --------------------------------- *)

\* The keep-alive count is the baseline plus one per live class object and
\* one per live engine instance.
KeepAliveCount ==
    module_arc.set =>
        module_arc.strong = 1 + Cardinality(LiveFactories) + Cardinality(LiveEngines)

\* C1, as stated: a DllCanUnloadNow call that did not panic returns S_OK
\* exactly when no engine instance is alive (S_OK once all N engines that
\* were constructed are destroyed, S_FALSE while one is alive).
C1_UnloadIffNoEngine ==
    (last.op = "DllCanUnloadNow" /\ last.closure.kind = "ret")
        => ((last.hr = "S_OK") <=> (LiveEngines = {}))

\* C1, amended: DllCanUnloadNow returns S_OK exactly when no panic was caught
\* in the call and the keep-alive strong count is 1, which is the case exactly
\* when no engine instance and no class object created through the entry
\* points is alive; in every other case it returns S_FALSE.
C1_UnloadIffNoObject ==
    /\ KeepAliveCount
    /\ last.op = "DllCanUnloadNow" =>
        /\ last.hr \in {"S_OK", "S_FALSE"}
        /\ (last.hr = "S_OK") <=> (last.closure.kind = "ret" /\ module_arc.strong = 1)
        /\ (last.hr = "S_OK") <=>
              (last.closure.kind = "ret" /\ LiveEngines = {} /\ LiveFactories = {})

\* An engine instance outlives its class object and still blocks the unload.
C1_Witness ==
    /\ last.op = "DllCanUnloadNow"
    /\ last.closure.kind = "ret"
    /\ last.hr = "S_FALSE"
    /\ LiveFactories = {}
    /\ LiveEngines # {}

\* C2: once a poll after a chunk write has returned the Abort bit, the Speak
\* call issues no further Write and returns success.
C2_AbortEndsSpeak ==
    /\ ~speak.abortSeen
    /\ (last.op = "Speak" /\ last.abortSeen) =>
          (last.hr = "S_OK" /\ last.writes = last.writesAtAbort)

\* A Speak call returned on Abort with a range still to come.
C2_Witness ==
    /\ last.op = "Speak"
    /\ last.abortSeen
    /\ last.hr = "S_OK"
    /\ last.writes >= 1
    /\ last.ranges >= 1

\* C3: during a Speak call GetActions is read at least once after every sink
\* Write and before the next sink Write, the last Write of a range and the
\* first Write of the following range included.
C3_PollBetweenWrites ==
    /\ ~speak.missedPoll
    /\ ~last.missedPoll

\* C4: a SetObjectToken call on an instance that already holds a token leaves
\* the stored token as it was, whatever is passed, and returns an error for
\* every token passed.
C4_DoubleBindFails ==
    (last.op = "SetObjectToken" /\ last.before # Unset) =>
        /\ engines[last.obj].token = last.before
        /\ last.tok \in Tokens => last.hr = "E_FAIL"
        /\ ~last.engineCalled

\* A second SetObjectToken with another token was refused.
C4_Witness ==
    /\ last.op = "SetObjectToken"
    /\ last.before = "t1"
    /\ last.tok = "t2"
    /\ last.hr = "E_FAIL"
    /\ engines[last.obj].token = "t1"

\* C5: the bound token is a one-shot latch: no step takes a live instance
\* from Bound(t) to Unbound or to Bound(t') with t' # t.
C5_TokenLatch ==
    [][\A e \in EngineSlots :
          (engines[e].alive /\ engines'[e].alive /\ engines[e].token # Unset)
              => engines'[e].token = engines[e].token]_vars

\* A failed Speak call and a refused SetObjectToken left the instance bound.
C5_Witness ==
    /\ last.op \in {"Speak", "SetObjectToken", "GetOutputFormat"}
    /\ last.hr \notin {"S_OK", "pending", "none"}
    /\ last.before = "t2"
    /\ engines[last.obj].alive
    /\ engines[last.obj].token = "t2"

\* C6: on an Unbound instance GetObjectToken, Speak and GetOutputFormat return
\* an error, the engine's logic is not invoked and nothing is written to the
\* sink; on a Bound instance GetObjectToken returns the stored token.
C6_UnboundRejected ==
    /\ (last.op \in {"GetObjectToken", "Speak", "GetOutputFormat"} /\ last.before = Unset) =>
          /\ last.hr = "E_FAIL"
          /\ ~last.engineCalled
          /\ last.writes = 0
    /\ speak.pc # "idle" => engines[speak.eng].token # Unset
    /\ (last.op = "GetObjectToken" /\ last.before # Unset) =>
          (last.hr = "S_OK" /\ last.out = last.before)

\* Speak was refused on an instance that never got a token.
C6_Witness ==
    /\ last.op = "Speak"
    /\ last.before = Unset
    /\ last.closure.kind = "ret"
    /\ last.hr = "E_FAIL"

\* The status each wrapped entry point returns when its body panics.
FailureStatus(op) ==
    CASE op = "DllGetClassObject" -> "E_UNEXPECTED"
      [] op = "DllCanUnloadNow" -> "S_FALSE"
      [] op = "DllRegisterServer" -> "SELFREG_E_CLASS"
      [] op = "DllUnregisterServer" -> "SELFREG_E_CLASS"
      [] op = "CreateInstance" -> "E_FAIL"
      [] op = "Speak" -> "E_FAIL"
      [] op = "GetOutputFormat" -> "E_FAIL"

WrappedEntryPoints ==
    {"DllGetClassObject", "DllCanUnloadNow", "DllRegisterServer",
     "DllUnregisterServer", "CreateInstance", "Speak", "GetOutputFormat"}

\* C7: a panic during DllGetClassObject, DllCanUnloadNow, DllRegisterServer,
\* DllUnregisterServer, CreateInstance, Speak or GetOutputFormat never unwinds
\* to the host; the call returns its failure status.
C7_PanicsStayInside ==
    /\ crashed => last.op \notin WrappedEntryPoints
    /\ (last.op \in WrappedEntryPoints /\ last.closure.kind = "panic") =>
          last.hr = FailureStatus(last.op)

\* DllCanUnloadNow panicked with nothing alive and did not report S_OK.
C7_Witness ==
    /\ last.op = "DllCanUnloadNow"
    /\ last.closure.kind = "panic"
    /\ last.hr = "S_FALSE"
    /\ module_arc.strong = 1

\* C8: the unwind boundary hands the closure's result on unchanged when the
\* closure does not panic; when it panics the result is the generic failure,
\* the payload is dropped once more for every drop that panicked, and no
\* panic leaves the boundary.
C8_BoundaryResult ==
    /\ (last.closure.kind = "ret" /\ last.op \in WrappedEntryPoints \cup {"SetObjectToken"}) =>
          /\ last.hr = last.closure.hr
          /\ last.drops = 0
          /\ last.op = "CreateInstance" => last.out = last.closure.val
    /\ (last.closure.kind = "panic" /\ last.op \in WrappedEntryPoints) =>
          /\ last.hr # "unwound"
          /\ last.drops = last.closure.payload + 1
          /\ last.op \in {"CreateInstance", "Speak", "GetOutputFormat"} => last.hr = "E_FAIL"
    /\ (last.closure.kind = "panic" /\ last.op = "SetObjectToken") =>
          (last.hr = "E_FAIL" /\ last.drops = last.closure.payload + 1)

\* A panic whose payload panicked twice while being dropped was caught.
C8_Witness ==
    /\ last.op = "Speak"
    /\ last.closure.kind = "panic"
    /\ last.closure.payload = 2
    /\ last.drops = 3
    /\ last.hr = "E_FAIL"
    /\ ~crashed

\* The statuses of CreateInstance's four argument rejections.
Rejections == {"E_POINTER", "E_INVALIDARG", "CLASS_E_NOAGGREGATION", "E_NOINTERFACE"}

\* C9: CreateInstance rejects, in this order, a null output pointer, a null
\* interface id pointer, an aggregation request and an unsupported interface
\* id; on every error return with a non-null output pointer the slot is null,
\* and a rejection constructs no engine.
C9_State ==
    last.op = "CreateInstance" =>
        /\ last.hr = (IF last.ppvNull THEN "E_POINTER"
                      ELSE IF last.riid = NullPtr THEN "E_INVALIDARG"
                      ELSE IF last.punk THEN "CLASS_E_NOAGGREGATION"
                      ELSE IF last.riid \notin {CLSID_TTS_ENGINE, IID_IUnknown,
                                                IID_ISpTTSEngine, IID_ISpObjectWithToken}
                           THEN "E_NOINTERFACE"
                      ELSE last.hr)
        /\ (last.hr # "S_OK" /\ ~last.ppvNull) => last.out = Null
        /\ last.hr \in Rejections => (~last.engineCalled /\ last.outId = 0)

C9_Frame ==
    (last'.op = "CreateInstance" /\ last.op = "none" /\ last'.hr \in Rejections)
        => (engines' = engines /\ module_arc' = module_arc)

C9_RejectionOrder == []C9_State /\ [][C9_Frame]_vars

\* A request for IClassFactory on the engine class was refused.
C9_Witness ==
    /\ last.op = "CreateInstance"
    /\ last.riid = IID_IClassFactory
    /\ last.hr = "E_NOINTERFACE"
    /\ last.out = Null

\* C10: when the engine constructor panics in CreateInstance the call returns
\* E_FAIL, the output pointer stays null and no engine instance was added.
C10_State ==
    (last.op = "CreateInstance" /\ last.closure.kind = "panic") =>
        (last.hr = "E_FAIL" /\ last.out = Null /\ last.outId = 0)

C10_Frame ==
    (last'.op = "CreateInstance" /\ last.op = "none" /\ last'.closure.kind = "panic")
        => (engines' = engines /\ module_arc' = module_arc)

C10_CtorPanicFails == []C10_State /\ [][C10_Frame]_vars

\* The constructor panicked and there is no engine.
C10_Witness ==
    /\ last.op = "CreateInstance"
    /\ last.closure.kind = "panic"
    /\ last.hr = "E_FAIL"
    /\ LiveEngines = {}

\* C11: destroying an engine instance never lets a panic of the user
\* engine's destructor unwind into the host, and the instance's keep-alive
\* clone is dropped, so the shared count goes down by one.
C11_DropStaysInside ==
    /\ KeepAliveCount
    /\ last.op = "ReleaseEngine" => (last.hr # "unwound" /\ ~crashed)

\* C12: a null argument is answered with an error status and never crashes
\* the host: SetObjectToken with a null token and Speak with a null output
\* site return an error and no panic unwinds out of the call.
C12_NullArgsRejected ==
    /\ (last.op = "SetObjectToken" /\ last.tok = NullPtr) =>
          (last.hr \notin {"S_OK", "unwound", "none"} /\ ~crashed)
    /\ (last.op = "Speak" /\ last.siteNull) =>
          (last.hr \notin {"S_OK", "unwound", "none"} /\ ~crashed)

\* C13: in the streaming loop the cursor advances by exactly the k bytes the
\* sink consumed, k odd or even: the next Write starts where the consumed
\* bytes end, so the bytes consumed so far plus the bytes still to be offered
\* are the range's audio, none skipped and none sent twice.
C13_CursorFollowsSink ==
    speak.pc \in {"write", "poll"} => speak.sunk + speak.remaining = speak.size

\* C14: when a sink Write returns an error the Speak call issues no further
\* Write and returns that error to the host, never success.
C14_SinkErrorEndsSpeak ==
    /\ speak.sinkErr = "none"
    /\ (last.op = "Speak" /\ last.sinkErr # "none") =>
          (last.hr = last.sinkErr /\ last.hr # "S_OK")

\* A Write failed after an earlier one went through, with a range to come.
C14_Witness ==
    /\ last.op = "Speak"
    /\ last.sinkErr = "E_OUTOFMEMORY"
    /\ last.hr = "E_OUTOFMEMORY"
    /\ last.writes >= 2
    /\ last.ranges >= 1

\* C15: a collaborator failure aborts only the Speak call it happens in: the
\* bound token is unchanged, and a later Speak call on the same instance in
\* which no collaborator fails is processed normally and succeeds.
C15_FailureStaysInCall ==
    /\ (last.op = "Speak" /\ last.hr # "pending" /\ engines[last.obj].alive) =>
          engines[last.obj].token = last.before
    /\ (last.op = "Speak" /\ last.engineCalled /\ last.hr # "pending"
          /\ ~last.collabFailed) => last.hr = "S_OK"

\* The status each operation returns when a panic is caught inside it.
PanicStatus(op) == IF op = "SetObjectToken" THEN "E_FAIL" ELSE FailureStatus(op)

\* The call c was answered as a contract violation: a rejected argument or
\* interface, a second token assignment, a use before the token is bound.
ContractViolation(c) ==
    /\ c.closure.kind # "panic"
    /\ c.hr \notin {"S_OK", "pending", "none", "unwound"}
    /\ CASE c.op \in {"DllGetClassObject", "CreateInstance"} ->
                c.hr \in Rejections \cup {"CLASS_E_CLASSNOTAVAILABLE"}
         [] c.op = "SetObjectToken" -> c.before # Unset /\ c.tok \in Tokens
         [] c.op \in {"Speak", "GetOutputFormat"} -> c.before = Unset
         [] OTHER -> FALSE

\* C16: for every host-facing operation the status returned for a contract
\* violation differs from the status returned when a panic was caught at
\* the boundary.
C16_StatusTellsCause ==
    ContractViolation(last) => last.hr # PanicStatus(last.op)

\* The rank of a voice language: the index of the first ranked language it
\* matches, one past the end of the list when it matches none.
Rank(languages, lang) ==
    LET hits == {i \in DOMAIN languages :
                    lang # NoLanguage /\ equal_language_codes(languages[i], lang)}
    IN  IF hits = {} THEN Len(languages) + 1
        ELSE CHOOSE i \in hits : \A k \in hits : i <= k

\* The language of candidate i of the selection in calc, 0 the default voice.
CandidateLanguage(i) == IF i = 0 THEN calc.default ELSE calc.voices[i]

\* C17: voice selection returns a voice of minimum rank; the default voice
\* is replaced only by a voice of strictly lower rank, among the other
\* voices of equal rank the first enumerated wins, and the default voice is
\* used when no voice matches any language. Ranked [fr, en] with default(de),
\* A(en), B(fr) selects B.
C17_MinRankVoice ==
    calc.fn = "select_voice" =>
        LET R(i) == Rank(calc.languages, CandidateLanguage(i))
            all == 0..Len(calc.voices)
            s == calc.out
        IN  /\ s \in all
            /\ \A i \in all : R(s) <= R(i)
            /\ s # 0 => (R(s) < R(0) /\ \A j \in 1..(s - 1) : R(s) < R(j))
            /\ (\A i \in all : R(i) = Len(calc.languages) + 1) => s = 0
            /\ (calc.languages = <<fr, en>> /\ calc.default = de
                  /\ calc.voices = <<en, fr>>) => s = 2

\* The example: the later voice B(fr) wins over A(en) and the default.
C17_Witness ==
    /\ calc.fn = "select_voice"
    /\ calc.languages = <<fr, en>>
    /\ calc.default = de
    /\ calc.voices = <<en, fr>>
    /\ calc.out = 2

\* The code has a separator character in it.
HasSeparator(code) == \E i \in DOMAIN code : code[i] \in {"-", "_"}

\* The part of the code before its first separator (all of it without one).
BeforeSeparator(code) ==
    LET n == CHOOSE n \in 0..Len(code) :
                /\ \A i \in 1..n : code[i] \notin {"-", "_"}
                /\ (n < Len(code) => code[n + 1] \in {"-", "_"})
    IN  SubSeq(code, 1, n)

\* C18: equal_language_codes(a, b) is true exactly when both codes contain a
\* separator and are equal as strings, or at most one contains a separator
\* and their parts before the first separator are equal; en matches en-US,
\* en-US does not match en-GB, en-US matches en-US.
C18_MatchRule ==
    calc.fn = "equal_language_codes" =>
        LET a == calc.first
            b == calc.second
            both == HasSeparator(a) /\ HasSeparator(b)
        IN  /\ calc.out <=> \/ (both /\ a = b)
                            \/ (~both /\ BeforeSeparator(a) = BeforeSeparator(b))
            /\ (a = en /\ b = en_US) => calc.out
            /\ (a = en_US /\ b = en_GB) => ~calc.out
            /\ (a = en_US /\ b = en_US) => calc.out

\* A code without region matched a code with two separators.
C18_Witness ==
    /\ calc.fn = "equal_language_codes"
    /\ calc.first = en
    /\ calc.second = <<"e", "n", "-", "U", "S", "_", "x">>
    /\ calc.out

\* C19: sapi_rate_to_modern gives, for every 32-bit signed rate r, in
\* twentieths: 20 - min(|r|, 10) when r < 0, 20 when r = 0 and
\* 20 + 10 * min(r, 10) when r > 0 (so 0 -> 1.0, 10 -> 6.0, -10 -> 0.5,
\* -30 -> 0.5), always within [0.5, 6.0].
C19_RateFormula ==
    calc.fn = "sapi_rate_to_modern" =>
        LET r == calc.sapi_rate
        IN  /\ ~calc.out.panic
            /\ calc.out.v = (IF r < 0 THEN 20 - (IF r <= -10 THEN 10 ELSE -r)
                             ELSE IF r = 0 THEN 20
                             ELSE 20 + 10 * (IF r >= 10 THEN 10 ELSE r))
            /\ 10 <= calc.out.v /\ calc.out.v <= 120

\* C20: sapi_volume_to_modern gives min(v / 100, 1) for every 16-bit unsigned
\* volume v (0 -> 0.0, 100 -> 1.0, 150 -> 1.0), always within [0.0, 1.0];
\* in hundredths: min(v, 100).
C20_VolumeFormula ==
    calc.fn = "sapi_volume_to_modern" =>
        LET v == calc.sapi_volume
        IN  /\ calc.out = (IF v >= 100 THEN 100 ELSE v)
            /\ 0 <= calc.out /\ calc.out <= 100
            /\ v = 0 => calc.out = 0
            /\ v = 100 => calc.out = 100
            /\ v = 150 => calc.out = 100

\* The volume above the documented range was clamped.
C20_Witness ==
    /\ calc.fn = "sapi_volume_to_modern"
    /\ calc.sapi_volume = 150
    /\ calc.out = 100

\* C21: get_output_format returns the debug text format exactly when the
\* request is Some(DebugText); for every other request (None, or any wave
\* format) it returns the engine's one PCM format, whatever the request's
\* fields: SAPI engine 16000 Hz, Piper engine 22050 Hz, both 1 channel, 16 bit.
C21_FixedFormat ==
    calc.fn = "get_output_format" =>
        /\ (calc.out.tag = "DebugText") <=> (calc.target.tag = "DebugText")
        /\ calc.target.tag # "DebugText" =>
            /\ calc.out.tag = "Wave"
            /\ calc.out.wave.wFormatTag = "WAVE_FORMAT_PCM"
            /\ calc.out.wave.nSamplesPerSec = (IF calc.engine = "sapi" THEN 16000 ELSE 22050)
            /\ calc.out.wave.nChannels = 1
            /\ calc.out.wave.wBitsPerSample = 16

\* The Piper engine was asked for 44.1 kHz stereo and answered with its own
\* format.
C21_Witness ==
    /\ calc.fn = "get_output_format"
    /\ calc.engine = "piper"
    /\ calc.target.tag = "Wave"
    /\ calc.target.wave.nSamplesPerSec = 44100
    /\ calc.target.wave.nChannels = 2
    /\ calc.out.wave.nSamplesPerSec = 22050
    /\ calc.out.wave.nChannels = 1

\* C22: when service discovery succeeds, DetectionService::new returns a
\* named error for zero services and another named error for more than one
\* service (never a panic), and a service only when exactly one service with
\* the language detection GUID was found.
C22_NamedErrors ==
    (calc.fn = "DetectionService_new" /\ calc.getServices = "ok") =>
        /\ Len(calc.guids) = 0 =>
            calc.out.kind = "Err" /\ calc.out.err # "MultipleServicesFound"
        /\ Len(calc.guids) > 1 => calc.out.kind = "Err"
        /\ (calc.out.kind = "Ok") <=>
            (Len(calc.guids) = 1 /\ calc.guids[1] = ELS_GUID_LANGUAGE_DETECTION)

\* C23: every range recognize_text returns, through the OS service or the
\* in-process detector, a span of zero length included, has start <= end and
\* end < the length of the text in UTF-16 code units.
C23_RangesInBounds ==
    calc.fn = "recognize_text" =>
        /\ ~calc.out.panic
        /\ ~calc.out.end.max
        /\ calc.out.start <= calc.out.end.idx
        /\ calc.out.end.idx < calc.len

\* C24: with no Abort and no failing collaborator, Speak handles the ranges
\* one after another: when the next range is started the sink has consumed
\* all audio of the range before it, and the call returns success with no
\* range left (also for an empty list of ranges).
C24_RangesInOrder ==
    /\ speak.pc = "range" => speak.sunk >= speak.size
    /\ (last.op = "Speak" /\ last.engineCalled /\ last.hr # "pending"
          /\ ~last.abortSeen /\ ~last.collabFailed) =>
            (last.hr = "S_OK" /\ last.ranges = 0)

\* C25: in both engines, between a poll without Abort and the next Write the
\* loop has read again, converted and applied the host's rate exactly when
\* the poll had RateChange set, and the volume exactly when it had
\* VolumeChange set.
C25_SettingsFollowFlags ==
    speak.pc = "write" => speak.reread = speak.polled \cap {"RATE", "VOLUME"}

\* C26: whatever other threads do between the test of the strong count and
\* the return, a DllCanUnloadNow call returns S_OK only at a moment when no
\* class object and no engine instance is alive.
C26_UnloadOnlyWhenNoObject ==
    [][(unload.pc = "read" /\ unload'.pc = "returned" /\ unload'.hr = "S_OK") =>
          (LiveFactories = {} /\ LiveEngines = {})]_vars

C28_SkipFrame ==
    [][/\ (speak.pc = "poll" /\ "SKIP" \in speak'.polled) =>
             /\ speak'.pc = "write"
             /\ speak'.remaining = speak.remaining
             /\ speak'.size = speak.size /\ speak'.sunk = speak.sunk
             /\ speak'.ranges = speak.ranges
             /\ speak'.eng = speak.eng /\ engines' = engines
             /\ speak'.writes = speak.writes
             /\ last' = last
       /\ (speak.pc = "poll" /\ speak'.pc = "idle") =>
             (last'.abortSeen \/ last'.collabFailed)]_vars

\* The SAPI engine goes on to the next Write after a poll with Skip set, the
\* rest of the range still to be written.
C28_Witness ==
    /\ kind = "sapi"
    /\ speak.pc = "write"
    /\ "SKIP" \in speak.polled
    /\ speak.remaining > 0
    /\ speak.remaining < speak.size

\* C29: with finite ranges and audio and a sink that consumes at least one
\* byte of every Write it does not fail, every Speak call returns.
C29_SpeakReturns == (speak.pc # "idle") ~> (speak.pc = "idle")

\* The strong count a call finds: module_ref() creates the Arc with count 1
\* when no call has used it yet.
StrongCount(m) == module_ref(m).strong

\* C30: a DllGetClassObject or CreateInstance call that returns an error
\* leaves the keep-alive count as it was, one that succeeds raises it by
\* one, and the release of a class object or engine instance lowers it by one.
C30_KeepAliveFrame ==
    [][/\ (last.op = "none" /\ last'.op \in {"DllGetClassObject", "CreateInstance"}) =>
             StrongCount(module_arc') =
                StrongCount(module_arc) + (IF last'.hr = "S_OK" THEN 1 ELSE 0)
       /\ (last.op = "none" /\ last'.op \in {"ReleaseFactory", "ReleaseEngine"}) =>
             StrongCount(module_arc') = StrongCount(module_arc) - 1]_vars

\* The SetObjectToken calls on record for engine e that passed a token.
Setters(e) ==
    {t \in Threads : /\ threads[t].op = "SetObjectToken"
                     /\ threads[t].eng = e
                     /\ threads[t].tok \in Tokens}

\* A call of the host on engine e that came after the token was stored.
LaterCall(e, ops) == last.op \in ops /\ last.obj = e /\ last.before # Unset

\* C31: when the engine's set_object_token hook returns an error or panics in
\* the call that stored the token, the call returns an error and the instance
\* stays bound to that token: a later GetObjectToken returns it, a later Speak
\* or GetOutputFormat is not refused as unbound and runs with it, and every
\* other SetObjectToken fails as a double assignment.
C31_HookFailureLeavesBound ==
    \A t \in Threads :
        (/\ threads[t].pc = "returned"
         /\ threads[t].stored
         /\ threads[t].hook # Ret("S_OK", Null)) =>
            LET e == threads[t].eng
            IN  /\ threads[t].hr \in CollaboratorErrors \cup {"E_FAIL"}
                /\ engines[e].alive
                /\ engines[e].token = threads[t].tok
                /\ LaterCall(e, {"GetObjectToken"}) =>
                      (last.hr = "S_OK" /\ last.out = threads[t].tok)
                /\ LaterCall(e, {"Speak", "GetOutputFormat"}) =>
                      /\ last.before = threads[t].tok
                      /\ last.closure.kind = "ret" => last.engineCalled
                /\ \A u \in Setters(e) \ {t} :
                      /\ ~threads[u].stored
                      /\ threads[u].pc = "returned"
                      /\ threads[u].hr = "E_FAIL"

\* The hook panicked in the call that stored t1; a second call was refused
\* and GetObjectToken hands out t1.
C31_Witness ==
    /\ threads[1].pc = "returned"
    /\ threads[1].stored
    /\ threads[1].tok = "t1"
    /\ threads[1].hook.kind = "panic"
    /\ threads[1].hr = "E_FAIL"
    /\ threads[2].pc = "returned"
    /\ threads[2].tok = "t2"
    /\ threads[2].hr = "E_FAIL"
    /\ last.op = "GetObjectToken"
    /\ last.out = "t1"

\* C32: of the SetObjectToken calls that run side by side on one instance,
\* exactly one stores its token when the instance was unbound; every other
\* call fails with E_FAIL, and every later GetObjectToken returns the token
\* of the call that stored it.
C32_OneSetterWins ==
    \A e \in EngineSlots :
        LET S == Setters(e)
            W == {t \in S : threads[t].stored}
        IN  /\ Cardinality(W) <= 1
            /\ (\E t \in S : threads[t].before = Unset) => Cardinality(W) = 1
            /\ S # {} => (engines[e].alive /\ engines[e].token # Unset)
            /\ \A t \in W : engines[e].token = threads[t].tok
            /\ \A t \in S \ W : threads[t].pc = "returned" /\ threads[t].hr = "E_FAIL"
            /\ \A t \in W : LaterCall(e, {"GetObjectToken"}) =>
                  (last.hr = "S_OK" /\ last.out = threads[t].tok)

\* While the call that stored t2 is still in the engine's hook, the call
\* with t1 has been refused and GetObjectToken hands out t2.
C32_Witness ==
    /\ threads[2].pc = "hook"
    /\ threads[2].tok = "t2"
    /\ threads[1].pc = "returned"
    /\ threads[1].tok = "t1"
    /\ threads[1].hr = "E_FAIL"
    /\ last.op = "GetObjectToken"
    /\ last.out = "t2"

\* C33: when a poll returns Abort together with RateChange, VolumeChange or
\* Skip, the call returns success at once: it reads neither the host's rate
\* nor its volume, hands no setting to the synthesizer and polls no more.
C33_AbortFirst ==
    /\ "ABORT" \notin speak.polled
    /\ (last.op = "Speak" /\ "ABORT" \in last.polled) =>
          /\ last.closure = Ret("S_OK", Null)
          /\ last.hr = "S_OK"
          /\ last.reread = {}
          /\ ~last.collabFailed
          /\ last.writes = last.writesAtAbort

\* The SAPI engine's call returned on a poll with all four flags set.
C33_Witness ==
    /\ kind = "sapi"
    /\ last.op = "Speak"
    /\ last.polled = {"ABORT", "SKIP", "RATE", "VOLUME"}
    /\ last.hr = "S_OK"
    /\ last.ranges >= 1

\* C34: DllGetClassObject answers a null ppv with E_POINTER and writes
\* nothing; otherwise a null rclsid or riid with E_INVALIDARG, then another
\* class or interface id with CLASS_E_CLASSNOTAVAILABLE, and only otherwise
\* makes a class factory, stores it in *ppv and returns S_OK; on every return
\* other than S_OK with a non-null ppv, *ppv is null.
C34_ValidationOrder ==
    last.op = "DllGetClassObject" =>
        /\ last.ppvNull => (last.hr = "E_POINTER" /\ last.out = "noslot")
        /\ ~last.ppvNull =>
              /\ last.hr = IF last.rclsid = NullPtr \/ last.riid = NullPtr
                           THEN "E_INVALIDARG"
                           ELSE IF last.rclsid # CLSID_TTS_ENGINE
                                   \/ last.riid # IID_IClassFactory
                           THEN "CLASS_E_CLASSNOTAVAILABLE"
                           ELSE "S_OK"
              /\ last.hr = "S_OK" => (last.out = "factory" /\ factories[last.outId].alive)
              /\ last.hr # "S_OK" => last.out = Null

\* The runs of the initialize hook on the threads in S.
RECURSIVE InitRuns(_)
InitRuns(S) ==
    IF S = {} THEN 0
    ELSE LET t == CHOOSE x \in S : TRUE
         IN  threads[t].inits + InitRuns(S \ {t})

\* C35: the initialize hook runs at most once in the process, whatever entry
\* points are called on whatever threads; it has finished before the body of
\* any entry point runs; a panic in it is swallowed, does not fail the entry
\* point that ran it, and the hook is not run again.
C35_InitOnce ==
    /\ InitRuns(Threads) <= 1
    /\ initialized => InitRuns(Threads) = 1
    /\ Cardinality({t \in Threads : threads[t].pc = "init"}) <= 1
    /\ \A t \in Threads :
          /\ threads[t].pc = "init" => ~initialized
          /\ (threads[t].op \in InitEntryPoints /\ threads[t].pc \in {"body", "returned"}) =>
                (initialized /\ threads[t].initDone)
          /\ (threads[t].pc = "returned" /\ threads[t].initPanic) =>
                /\ threads[t].hr # "unwound"
                /\ threads[t].hook.kind = "ret" => threads[t].hr = threads[t].hook.hr

\* The hook panicked on thread 1, whose call went on and returned S_OK, and
\* thread 2 is in the body of a later call without having run the hook.
C35_Witness ==
    /\ threads[1].pc = "returned"
    /\ threads[1].initPanic
    /\ threads[1].op = "DllCanUnloadNow"
    /\ threads[1].hr = "S_OK"
    /\ threads[2].pc = "body"
    /\ threads[2].inits = 0

\* C36: the SAPI engine drops exactly the 44 bytes of the .wav header: the
\* first byte offered to the sink is the byte at offset 44 of the stream and
\* the bytes offered for the range are the stream size minus 44.
C36_HeaderIs44Bytes ==
    (calc.fn = "wav_data" /\ calc.size >= 44) =>
        /\ ~calc.out.panic
        /\ calc.out.offset = 44
        /\ calc.out.len = calc.size - 44

\* C37: whenever GetOutputFormat returns an error (the engine fails, the
\* allocation fails, no token is bound, a panic was caught), both out
\* parameters have been written: the format id is the zero GUID and the
\* wave-format pointer is null.
C37_SafeOutParams ==
    (last.op = "GetOutputFormat" /\ last.hr # "S_OK") =>
        (last.outFmt = "zero" /\ last.out = Null)

\* C38: in DetectionService::recognize_text every MappingRecognizeText call
\* that succeeded is followed by exactly one MappingFreePropertyBag call
\* before recognize_text returns, on the success path and on every error
\* path, language data that is not valid UTF-16 included.
C38_BagFreedOnce ==
    calc.fn = "recognize_text_bag" => calc.out.frees = calc.out.recognized

\* C40: when the Piper engine finds no usable model (no piper_models folder,
\* a folder that cannot be listed, no valid model config in it), Speak
\* returns success without starting the language detection and without a
\* Write to the sink.
C40_NoModelNoSpeech ==
    /\ (speak.pc \notin {"idle", "detect"} /\ kind = "piper") =>
          (speak.models = "usable" /\ speak.detected)
    /\ (last.op = "Speak" /\ kind = "piper"
        /\ last.models \in {"dll_path", "missing", "unreadable", "no_models"}) =>
          /\ last.closure = Ret("S_OK", Null)
          /\ last.hr = "S_OK"
          /\ ~last.detected
          /\ ~last.collabFailed
          /\ last.writes = 0
          /\ last.ranges = 0

\* Speak returned S_OK from a folder that holds no valid model config.
C40_Witness ==
    /\ kind = "piper"
    /\ last.op = "Speak"
    /\ last.models = "no_models"
    /\ last.hr = "S_OK"
    /\ last.writes = 0

\* C39: in one Piper engine instance the model of a config path is read from
\* disk at most once; once it was read, every later range and every later
\* Speak call that selects the path gets the model from the cache; the cache
\* is looked at and changed only with the lock held, and the lock is free
\* again before the synthesis and before every Write.
C39_ModelLoadedOnce ==
    /\ \A path \in ConfigPaths : piper.loads[path] <= 1
    /\ ~piper.missedCache
    /\ ~piper.unlockedAccess
    /\ ~piper.lockedWork

\* The parts of C39 that do not depend on what a poisoned lock does.
CacheLockDiscipline ==
    /\ \A path \in ConfigPaths : piper.loads[path] <= 1
    /\ piper.cached = {path \in ConfigPaths : piper.loads[path] = 1} \/ piper.lock # "free"
    /\ ~piper.unlockedAccess
    /\ ~piper.lockedWork
    /\ \A t \in Threads : piper.calls[t].pc \in {"locked", "miss", "insert"} <=> holds_lock(piper, t)

====
